---- MODULE Spec2Model ----
(***************************************************************************)
(* Relay sequencer of the lighting-panel programmer (PyQt front-end):      *)
(* RelayControlApp (relay_control.py), LevelsSheetPage                     *)
(* (levels_sheet_page.py) and the logger (gui_logger.py).                  *)
(*                                                                         *)
(* A worker thread is a record holding the statements it still has to      *)
(* execute (prog).  Every statement of the source that touches shared      *)
(* state (the relay word, the lock, the GPIO backend, the log, a button,   *)
(* the table, the debug gate) or sleeps is one statement of prog, and one  *)
(* step of the model executes one statement, so that threads interleave    *)
(* between any two statements that touch shared state.  A `with            *)
(* self.state_lock:' block is two steps: Enter (acquire, mutate the word)  *)
(* and Write (gpio.write, release).  Time is not modelled: a sleep changes *)
(* nothing but the position of its thread, and a thread passes it (and a   *)
(* log line that goes to the console) together with the step before it.    *)
(***************************************************************************)
EXTENDS Integers, Sequences, FiniteSets, TLC

VARIABLES
    current_state,   \* RelayControlApp.current_state: the 16-bit relay word
    state_lock,      \* RelayControlApp.state_lock: 0 = free, t = held by thread t
    hardware_ready,  \* RelayControlApp.hardware_ready
    simulation,      \* relay_control.SIMULATION_MODE (fixed at import)
    has_gpio,        \* RelayControlApp has its attribute gpio
    gpio_word,       \* the word the GPIO backend holds (its last write)
    threads,         \* the worker threads, by slot
    disabled,        \* the controls that are disabled (setEnabled(False))
    rows,            \* LevelsSheetPage.rows: per channel its zone and 10 scene levels
    debug_mode,      \* LevelsSheetPage.debug_mode
    step_ready,      \* LevelsSheetPage.step_ready (threading.Event): TRUE = set
    widget,          \* Logger.widget is set (a log widget is attached)
    log,             \* the lines given to the log widget, in order
    queue,           \* the log_signal calls queued for the GUI thread, oldest first
    connected,       \* GpioMpsseController.is_connected: the link is open
    dialog,          \* the QMessageBox.critical shown last: <<title, text>>, or <<>>
    header,          \* site_name_entry, date_entry and num_channels_entry, as texts
    file,            \* the text of the CSV file of the save and import dialogs
    recording,       \* a recording GPIO link is attached (test double)
    writes           \* the words written to the GPIO link while recording

vars == <<current_state, state_lock, hardware_ready, simulation, has_gpio,
          gpio_word, threads, disabled, rows, debug_mode, step_ready,
          widget, log, queue, recording, writes, connected, dialog, header, file>>

(***************************************************************************)
(* Bounds of the model.                                                    *)
(***************************************************************************)
MaxThreads == 2      \* worker threads alive at the same time
MaxRows == 2         \* channels of the tables the runs start from

(***************************************************************************)
(* The relay word.                                                         *)
(***************************************************************************)
WordBits == 16
AllOff == 65535      \* 0xFFFF: all relays OFF (active low)

RECURSIVE Pow2(_)
Pow2(n) == IF n = 0 THEN 1 ELSE 2 * Pow2(n - 1)

BitAt(w, i) == (w \div Pow2(i)) % 2

RECURSIVE FromBits(_, _)
FromBits(f, i) == IF i = WordBits THEN 0 ELSE f[i] * Pow2(i) + FromBits(f, i + 1)

\* w & ~m
AndNot(w, m) ==
    FromBits([i \in 0..(WordBits - 1) |-> IF BitAt(m, i) = 1 THEN 0 ELSE BitAt(w, i)], 0)

\* w | m
BitOr(w, m) ==
    FromBits([i \in 0..(WordBits - 1) |-> IF BitAt(m, i) = 1 THEN 1 ELSE BitAt(w, i)], 0)

Digits == 0..9

\* RELAY_PINS: digit "0".."9" -> pin 0..9
RELAY_PINS(key) == key

\* 1 << RELAY_PINS[key]
PinMask(key) == Pow2(RELAY_PINS(key))

\* (1 << RELAY_PINS["0"]) | (1 << RELAY_PINS["9"])
GuardMask == BitOr(PinMask(0), PinMask(9))

(***************************************************************************)
(* Decimal strings.                                                        *)
(***************************************************************************)
RECURSIVE DecDigits(_)
DecDigits(n) == IF n < 10 THEN <<n>> ELSE Append(DecDigits(n \div 10), n % 10)

\* str(n).zfill(2), as its digits
Zfill2(n) == IF n < 10 THEN <<0, n>> ELSE DecDigits(n)

RECURSIVE DigitsText(_)
DigitsText(ds) == IF ds = <<>> THEN "" ELSE ToString(Head(ds)) \o DigitsText(Tail(ds))

\* f"{v:02d}"
Fmt02(v) == DigitsText(Zfill2(v))

\* s.startswith(p)
StartsWith(s, p) == Len(s) >= Len(p) /\ SubSeq(s, 1, Len(p)) = p

(***************************************************************************)
(* Texts: str.strip, int, str.split, str.join and str.splitlines.          *)
(***************************************************************************)
\* the whitespace of the texts of the model
Whitespace == {" ", "\t", "\n"}

CharAt(s, i) == SubSeq(s, i, i)

RECURSIVE LStrip(_)
LStrip(s) == IF s # "" /\ CharAt(s, 1) \in Whitespace THEN LStrip(Tail(s)) ELSE s

RECURSIVE RStrip(_)
RStrip(s) ==
    IF s # "" /\ CharAt(s, Len(s)) \in Whitespace
    THEN RStrip(SubSeq(s, 1, Len(s) - 1))
    ELSE s

\* s.strip()
Strip(s) == RStrip(LStrip(s))

DigitChars == {ToString(d) : d \in 0..9}

DigitValue(c) == CHOOSE d \in 0..9 : ToString(d) = c

RECURSIVE NumeralValue(_)
\* the value of a text of decimal digits
NumeralValue(s) ==
    IF s = "" THEN 0
    ELSE 10 * NumeralValue(SubSeq(s, 1, Len(s) - 1)) + DigitValue(CharAt(s, Len(s)))

\* int(text): surrounding whitespace and one sign are accepted, then decimal
\* digits only; ok = FALSE stands for the ValueError
ParseInt(text) ==
    LET s == Strip(text)
        signed == s # "" /\ CharAt(s, 1) \in {"+", "-"}
        body == IF signed THEN Tail(s) ELSE s
        ok == body # "" /\ \A i \in 1..Len(body) : CharAt(body, i) \in DigitChars
    IN [ok |-> ok,
        value |-> IF ~ok THEN 0
                  ELSE IF signed /\ CharAt(s, 1) = "-" THEN 0 - NumeralValue(body)
                  ELSE NumeralValue(body)]

\* s.split(sep) for a separator of one character: the texts between the
\* places of the separator, in order
Split(s, sep) ==
    LET seps == {i \in 1..Len(s) : CharAt(s, i) = sep}
        n == Cardinality(seps)
        Place(k) == CHOOSE i \in seps : Cardinality({j \in seps : j < i}) = k - 1
    IN [k \in 1..(n + 1) |->
           SubSeq(s, IF k = 1 THEN 1 ELSE Place(k - 1) + 1,
                     IF k = n + 1 THEN Len(s) ELSE Place(k) - 1)]

RECURSIVE Join(_, _)
\* sep.join(fields)
Join(fields, sep) ==
    IF fields = <<>> THEN ""
    ELSE IF Len(fields) = 1 THEN fields[1]
    ELSE fields[1] \o sep \o Join(Tail(fields), sep)

\* text.splitlines(): no empty last line after a final line end
SplitLines(text) ==
    IF text = "" THEN <<>>
    ELSE LET parts == Split(text, "\n") IN
         IF parts[Len(parts)] = "" THEN SubSeq(parts, 1, Len(parts) - 1) ELSE parts

(***************************************************************************)
(* Statements of a thread.                                                 *)
(***************************************************************************)
NoCtl == <<"none", 0, 0>>
ProgramButton == <<"program", 0, 0>>
AllocateButton == <<"allocate", 0, 0>>
\* the "P" button of channel ch, scene column idx (0..9)
PButton(ch, idx) == <<"P", ch, idx>>

Stmt(k, a, b, s, c) == [k |-> k, a |-> a, b |-> b, s |-> s, c |-> c]

\* with state_lock: current_state &= ~m; gpio.write(current_state)
Clr(m) == Stmt("clr", m, 0, "", NoCtl)
\* with state_lock: current_state |= m; gpio.write(current_state)
Set(m) == Stmt("set", m, 0, "", NoCtl)
\* with state_lock: current_state = w; gpio.write(current_state)
Assign(w) == Stmt("assign", w, 0, "", NoCtl)
\* global_log(s)
Log(s) == Stmt("log", 0, 0, s, NoCtl)
\* time.sleep(ms / 1000); ms = -1: time.sleep(self.duration_spinner.value())
Sleep(ms) == Stmt("sleep", ms, 0, "", NoCtl)
Hold == Sleep(-1)
\* button.setEnabled(True)
Enable(c) == Stmt("enable", 0, 0, "", c)
\* self.wait_for_next_step()
WaitStep == Stmt("wait", 0, 0, "", NoCtl)
\* threading.Thread(target=execute_sequence).start(), the starting thread ends
Spawn == Stmt("spawn", 0, 0, "", NoCtl)
\* rc.program_zone(zone, debug_callback=... if self.debug_mode else None)
CallProgramZone(zone) == Stmt("program_zone", zone, 0, "", NoCtl)
\* the reading of the table in program_scene_levels_sequence
ReadRows(scene_digit, zone) == Stmt("read_rows", scene_digit, zone, "", NoCtl)
\* one iteration of `for idx, row in enumerate(self.rows, start=1)'
AllocIter(idx, zone) == Stmt("alloc_iter", idx, zone, "", NoCtl)

\* if SIMULATION_MODE: global_log(f"[SIMULATION] {msg}") else: global_log(msg)
SimLog(msg) == Log(IF simulation THEN "[SIMULATION] " \o msg ELSE msg)

R(key) == "R" \o ToString(key)

(***************************************************************************)
(* relay_control.py: the bodies of the thread functions, as statements.    *)
(***************************************************************************)
\* one relay pulse: ON write, hold, OFF write (with its two log lines)
Pulse(prefix, key, hold) ==
    << SimLog(prefix \o R(key) \o " ON"),
       Clr(PinMask(key)),
       hold,
       Set(PinMask(key)),
       SimLog(prefix \o R(key) \o " OFF") >>

\* a toggle that never releases its relay
ToggleRelayThread_NoRelease(relay_number) ==
    << SimLog(R(relay_number) \o " ON"), Clr(PinMask(relay_number)), Hold,
       SimLog(R(relay_number) \o " OFF") >>

ToggleRelayThread(relay_number) == Pulse("", relay_number, Hold)

RECURSIVE TestAllFrom(_)
TestAllFrom(relay) ==
    IF relay > 9 THEN <<>>
    ELSE ToggleRelayThread(relay) \o <<Sleep(200)>> \o TestAllFrom(relay + 1)

\* sorted(RELAY_PINS.keys()) is "0", "1", ..., "9"
TestAllRelaysThread == TestAllFrom(0)

RECURSIVE SequencePulses(_, _)
SequencePulses(mode_name, sequence) ==
    IF sequence = <<>> THEN <<>>
    ELSE Pulse(mode_name \o ": ", Head(sequence), Hold) \o <<Sleep(100)>>
         \o SequencePulses(mode_name, Tail(sequence))

\* a sequence that releases the guard relays before its last pulse
SequenceModeThread_EarlyGuardOff(mode_name, sequence) ==
    << SimLog(mode_name \o ": Start"),
       Clr(GuardMask),
       SimLog(mode_name \o ": R0 & R9 ON"),
       Sleep(300) >>
    \o SequencePulses(mode_name, SubSeq(sequence, 1, Len(sequence) - 1))
    \o << Set(GuardMask),
          SimLog(mode_name \o ": R0 & R9 OFF") >>
    \o SequencePulses(mode_name, SubSeq(sequence, Len(sequence), Len(sequence)))
    \o << SimLog(mode_name \o ": End") >>

SequenceModeThread(mode_name, sequence) ==
    << SimLog(mode_name \o ": Start"),
       Clr(GuardMask),
       SimLog(mode_name \o ": R0 & R9 ON"),
       Sleep(300) >>
    \o SequencePulses(mode_name, sequence)
    \o << Set(GuardMask),
          SimLog(mode_name \o ": R0 & R9 OFF"),
          SimLog(mode_name \o ": End") >>

ProgrammingModeThread == SequenceModeThread("Prog Mode", <<2, 1, 2, 1>>)

SinglePressModeThread(mode_name, relay_key) ==
    << SimLog(mode_name \o ": Start") >>
    \o (IF StartsWith(mode_name, "Exit Prog Mode")
        THEN << Clr(GuardMask), SimLog(mode_name \o ": R0 & R9 ON"), Sleep(300) >>
        ELSE <<>>)
    \o Pulse(mode_name \o ": ", relay_key, Hold)
    \o << Sleep(100) >>
    \o (IF StartsWith(mode_name, "Exit Prog Mode")
        THEN << Set(GuardMask), SimLog(mode_name \o ": R0 & R9 OFF") >>
        ELSE <<>>)
    \o << SimLog(mode_name \o ": End") >>

\* a double press that energizes its two relays one after the other
DoublePressModeThread_OneByOne(mode_name, relay_key1, relay_key2) ==
    << SimLog(mode_name \o ": Start"),
       Clr(PinMask(relay_key1)),
       Clr(PinMask(relay_key2)),
       SimLog(mode_name \o ": " \o R(relay_key1) \o " & " \o R(relay_key2) \o " ON"),
       Hold,
       Set(BitOr(PinMask(relay_key1), PinMask(relay_key2))),
       SimLog(mode_name \o ": " \o R(relay_key1) \o " & " \o R(relay_key2) \o " OFF"),
       SimLog(mode_name \o ": End") >>

DoublePressModeThread(mode_name, relay_key1, relay_key2) ==
    << SimLog(mode_name \o ": Start"),
       Clr(BitOr(PinMask(relay_key1), PinMask(relay_key2))),
       SimLog(mode_name \o ": " \o R(relay_key1) \o " & " \o R(relay_key2) \o " ON"),
       Hold,
       Set(BitOr(PinMask(relay_key1), PinMask(relay_key2))),
       SimLog(mode_name \o ": " \o R(relay_key1) \o " & " \o R(relay_key2) \o " OFF"),
       SimLog(mode_name \o ": End") >>

\* wait_for_debug() inside program_zone
WaitForDebug(debug_callback) == IF debug_callback THEN <<WaitStep>> ELSE <<>>

\* the guarded half of program_zone: 8, 7 and two pulses of `side'
ZoneHalf(name, side, wait_between) ==
    << SimLog(name \o ": Start"),
       Clr(GuardMask),
       SimLog(name \o ": R0 & R9 ON"),
       Sleep(500) >>
    \o Pulse(name \o ": ", 8, Sleep(500)) \o <<Sleep(300)>>
    \o Pulse(name \o ": ", 7, Sleep(500)) \o <<Sleep(300)>>
    \o Pulse(name \o ": ", side, Sleep(500))
    \o (IF wait_between THEN <<SimLog("wait 0.3 secs"), Sleep(300)>> ELSE <<>>)
    \o Pulse(name \o ": ", side, Sleep(500))
    \o << Sleep(300),
          Set(GuardMask),
          SimLog(name \o ": R0 & R9 OFF"),
          SimLog(name \o ": End") >>

ZoneDigit(name, zone) ==
    << SimLog(name \o ": Start"),
       SimLog(name \o ": " \o R(zone) \o " ON"),
       Clr(PinMask(zone)),
       Hold,
       Set(PinMask(zone)),
       SimLog(name \o ": " \o R(zone) \o " OFF"),
       SimLog(name \o ": End") >>

\* a program_zone whose right half presses relay 1 as the left half does
ProgramZoneBody_LeftTwice(zone, debug_callback) ==
    << SimLog("=== STEP 2: Set Zone Left ===") >>
    \o WaitForDebug(debug_callback)
    \o ZoneHalf("Zone Left", 1, TRUE)
    \o ZoneDigit("Zone Left Digit", zone)
    \o << SimLog("wait 1 sec"), Sleep(1000) >>
    \o WaitForDebug(debug_callback)
    \o << SimLog("=== STEP 3: Set Zone Right ===") >>
    \o WaitForDebug(debug_callback)
    \o ZoneHalf("Zone Right", 1, FALSE)
    \o << SimLog("wait 0.3 secs"), Sleep(300) >>
    \o ZoneDigit("Zone Right Digit", zone)
    \o << SimLog("wait 2 sec"), Sleep(2000) >>
    \o WaitForDebug(debug_callback)
    \o << SimLog("Zone programming complete for zone " \o ToString(zone)),
          SimLog("wait 2 sec"),
          Sleep(2000) >>
    \o WaitForDebug(debug_callback)

\* program_zone past its hardware_ready test
ProgramZoneBody(zone, debug_callback) ==
    << SimLog("=== STEP 2: Set Zone Left ===") >>
    \o WaitForDebug(debug_callback)
    \o ZoneHalf("Zone Left", 1, TRUE)
    \o ZoneDigit("Zone Left Digit", zone)
    \o << SimLog("wait 1 sec"), Sleep(1000) >>
    \o WaitForDebug(debug_callback)
    \o << SimLog("=== STEP 3: Set Zone Right ===") >>
    \o WaitForDebug(debug_callback)
    \o ZoneHalf("Zone Right", 2, FALSE)
    \o << SimLog("wait 0.3 secs"), Sleep(300) >>
    \o ZoneDigit("Zone Right Digit", zone)
    \o << SimLog("wait 2 sec"), Sleep(2000) >>
    \o WaitForDebug(debug_callback)
    \o << SimLog("Zone programming complete for zone " \o ToString(zone)),
          SimLog("wait 2 sec"),
          Sleep(2000) >>
    \o WaitForDebug(debug_callback)

RECURSIVE DigitPresses(_, _, _)
\* for digit in ds: _single_press_mode_thread(mode_name, digit); then `after'
DigitPresses(mode_name, ds, after) ==
    IF ds = <<>> THEN <<>>
    ELSE SinglePressModeThread(mode_name, Head(ds)) \o after
         \o DigitPresses(mode_name, Tail(ds), after)

\* execute_sequence of _play_scene_level_sequence
PlayExecuteSequence(channel, scene_digit, level_value, callback) ==
    << SimLog("=== STEP 1: Exit Programming Mode ===") >>
    \o SinglePressModeThread("Exit Prog Mode", 8) \o <<Sleep(1000)>>
    \o << SimLog("=== STEP 2: Enter Programming Mode ===") >>
    \o ProgrammingModeThread \o <<Sleep(1000)>>
    \o << SimLog("=== STEP 3: Quick Scene Mode ===") >>
    \o DoublePressModeThread("Quick Scene", 1, 5) \o <<Sleep(1000)>>
    \o << SimLog("=== STEP 4: Quick Scene Digit (" \o ToString(scene_digit) \o ") ===") >>
    \o SinglePressModeThread("Quick Scene Digit", scene_digit) \o <<Sleep(1000)>>
    \o << SimLog("=== STEP 5: Quick Circuit Mode ===") >>
    \o DoublePressModeThread("Quick Circuit", 2, 6) \o <<Sleep(1000)>>
    \o << SimLog("=== STEP 6: Circuit Digit (" \o ToString(channel) \o ") ===") >>
    \o DigitPresses("Circuit Digit", Zfill2(channel), <<Sleep(1000)>>)
    \o << SimLog("=== STEP 7: Quick Level Mode ===") >>
    \o DoublePressModeThread("Quick Level", 3, 7) \o <<Sleep(1000)>>
    \o << SimLog("=== STEP 8: Level Digit (" \o Fmt02(level_value) \o ") ===") >>
    \o DigitPresses("Level Digit", Zfill2(level_value), <<Sleep(1000)>>)
    \o << SimLog("=== STEP 9: Exit Programming Mode ===") >>
    \o SinglePressModeThread("Exit Prog Mode", 8) \o <<Sleep(1000)>>
    \o << SimLog("=== COMPLETE: Play done for channel " \o ToString(channel)
                 \o ", scene " \o ToString(scene_digit)
                 \o " with level " \o Fmt02(level_value) \o " ===") >>
    \o (IF callback = NoCtl THEN <<>> ELSE <<Enable(callback)>>)

\* a play that calls back as soon as execute_sequence is started
PlaySceneLevelSequence_EarlyCallback(channel, scene_digit, level_value, callback) ==
    <<Spawn, Enable(callback)>>
    \o PlayExecuteSequence(channel, scene_digit, level_value, NoCtl)

\* _play_scene_level_sequence: it only starts execute_sequence
PlaySceneLevelSequence(channel, scene_digit, level_value, callback) ==
    <<Spawn>> \o PlayExecuteSequence(channel, scene_digit, level_value, callback)

(***************************************************************************)
(* levels_sheet_page.py: the table and the two composite sequences.        *)
(***************************************************************************)
\* a column rule without the case of scene "0"
SceneIndex_NoScene0(scene_digit) == IF scene_digit = 0 THEN 0 ELSE scene_digit - 1

\* scene_index = 9 if scene_digit == "0" else int(scene_digit) - 1
SceneIndex(scene_digit) == IF scene_digit = 0 THEN 9 ELSE scene_digit - 1

\* scene_digit = str(i + 1) if i < 9 else "0"
SceneDigitOf(i) == IF i < 9 THEN i + 1 ELSE 0

\* row['scenes'][scene_index].value(); scenes is 1-based here
LevelOf(row, scene_digit) == row.scenes[SceneIndex(scene_digit) + 1]

\* the (idx, level_value) pairs of the rows whose zone is `zone', in table order
RECURSIVE ChannelsToProgram(_, _, _, _)
ChannelsToProgram(table, idx, scene_digit, zone) ==
    IF idx > Len(table) THEN <<>>
    ELSE (IF table[idx].zone = zone
          THEN << <<idx, LevelOf(table[idx], scene_digit)>> >>
          ELSE <<>>)
         \o ChannelsToProgram(table, idx + 1, scene_digit, zone)

Wait02 == << Log("wait 0.2secs"), Sleep(200) >>

\* the body of `for idx, level_value in channels_to_program'
ProgramChannel(idx, level_value, scene_digit, zone) ==
    << Log("=== Programming channel " \o ToString(idx) \o " with level "
            \o Fmt02(level_value) \o " for scene " \o ToString(scene_digit)
            \o " (zone " \o ToString(zone) \o ") ==="),
       Log("=== STEP 7: Quick Circuit Operation (Channel " \o ToString(idx) \o ") ===") >>
    \o DoublePressModeThread("Quick Circuit", 2, 6) \o <<Sleep(500)>>
    \o Wait02 \o <<WaitStep>>
    \o << Log("=== STEP 8: Circuit Digits " \o ToString(idx)
              \o " (Channel " \o ToString(idx) \o ") ===") >>
    \o DigitPresses("Circuit Digit", Zfill2(idx), <<Sleep(500), WaitStep>>)
    \o Wait02
    \o << Log("=== STEP 9: Quick Level Operation (Channel " \o ToString(idx) \o ") ===") >>
    \o DoublePressModeThread("Quick Level", 3, 7) \o <<Sleep(500)>>
    \o Wait02 \o <<WaitStep>>
    \o << Log("=== STEP 10: Level Digits " \o Fmt02(level_value)
              \o " (Channel " \o ToString(idx) \o ") ===") >>
    \o DigitPresses("Level Digit", Zfill2(level_value), <<Sleep(500), WaitStep>>)
    \o Wait02
    \o << Log("=== Channel " \o ToString(idx) \o " programmed ===") >>

RECURSIVE ProgramChannels(_, _, _)
ProgramChannels(channels_to_program, scene_digit, zone) ==
    IF channels_to_program = <<>> THEN <<>>
    ELSE ProgramChannel(Head(channels_to_program)[1], Head(channels_to_program)[2],
                        scene_digit, zone)
         \o ProgramChannels(Tail(channels_to_program), scene_digit, zone)

\* a Program Scene that enters programming mode before it programs the zone
ProgramSceneLevelsSequence_ZoneLate(scene_digit, zone) ==
    << Log("=== Starting programming sequence ==="),
       Log("=== STEP 1: Exit Programming Mode ===") >>
    \o SinglePressModeThread("Exit Prog Mode", 8)
    \o << Sleep(200), WaitStep,
          Log("=== STEP 4: Enter Programming Mode ===") >>
    \o ProgrammingModeThread
    \o << Sleep(500),
          CallProgramZone(zone),
          Sleep(500) >> \o Wait02 \o << WaitStep >>
    \o << ReadRows(scene_digit, zone) >>

\* program_scene_levels_sequence up to the reading of the table
ProgramSceneLevelsSequence(scene_digit, zone) ==
    << Log("=== Starting programming sequence ==="),
       Log("=== STEP 1: Exit Programming Mode ===") >>
    \o SinglePressModeThread("Exit Prog Mode", 8)
    \o << Sleep(200), WaitStep,
          CallProgramZone(zone),
          Sleep(500),
          Log("=== STEP 4: Enter Programming Mode ===") >>
    \o ProgrammingModeThread
    \o << Sleep(500) >> \o Wait02 \o << WaitStep >>
    \o << ReadRows(scene_digit, zone) >>

\* program_scene_levels_sequence from the reading of the table on
ProgramSceneLevelsRest(channels_to_program, scene_digit, zone) ==
    << Log("=== STEP 5: Quick Scene Operation ===") >>
    \o DoublePressModeThread("Quick Scene", 1, 5) \o <<Sleep(500)>>
    \o Wait02 \o <<WaitStep>>
    \o << Log("=== STEP 6: Scene Digit " \o ToString(scene_digit) \o " ===") >>
    \o SinglePressModeThread("Scene digit", scene_digit) \o <<Sleep(500)>>
    \o Wait02 \o <<WaitStep>>
    \o ProgramChannels(channels_to_program, scene_digit, zone)
    \o << Log("=== STEP 11: Exit Programming Mode ===") >>
    \o SinglePressModeThread("Exit Prog Mode", 8)
    \o << Sleep(500), WaitStep,
          Log("=== Programming sequence complete ==="),
          Enable(ProgramButton) >>

\* execute_sequence of allocate_to_zones_sequence, up to its loop
AllocateExecuteSequence(zone) ==
    << Log("=== Starting allocation sequence ==="),
       Log("=== STEP 1: Exit Programming Mode ===") >>
    \o SinglePressModeThread("Exit Prog Mode", 8)
    \o << Sleep(500), WaitStep,
          CallProgramZone(zone),
          Sleep(500),
          Log("=== STEP 4: Enter Programming Mode ===") >>
    \o ProgrammingModeThread
    \o << Sleep(500), WaitStep,
          Log("=== STEP 5: Allocate Channels ==="),
          AllocIter(1, zone) >>
    \o << Log("=== STEP 6: Exit Programming Mode ===") >>
    \o SinglePressModeThread("Exit Prog Mode", 8)
    \o << Sleep(500), WaitStep,
          Log("=== Allocation sequence complete ==="),
          Enable(AllocateButton) >>

\* an allocation that sends digit 1 to every row
AllocDigit_AlwaysOne(row, zone) == 1

\* alloc_digit = "1" if row["zone"].currentText() == zone else "0"
AllocDigit(row, zone) == IF row.zone = zone THEN 1 ELSE 0

\* the body of the loop of allocate_to_zones_sequence for row idx
AllocateChannel(idx, alloc_digit) ==
    << Log("=== Allocating channel " \o ToString(idx) \o " with digit "
            \o ToString(alloc_digit) \o " ===") >>
    \o DigitPresses("Circuit Digit", Zfill2(idx), <<Sleep(500), WaitStep>>)
    \o SinglePressModeThread("Circuit Act Digit", alloc_digit)
    \o << Sleep(500), WaitStep >>

\* allocate_to_zones_sequence: it only starts execute_sequence
AllocateToZonesSequence(zone) == <<Spawn>> \o AllocateExecuteSequence(zone)

(***************************************************************************)
(* Hardware initialisation and the simulated GPIO backend.                 *)
(***************************************************************************)
\* self.gpio = GpioMpsseController()
Ctor == Stmt("ctor", 0, 0, "", NoCtl)
\* self.gpio.configure('ftdi://ftdi:232h/1', direction=0xFFFF, frequency=6000000)
Configure == Stmt("configure", 0, 0, "", NoCtl)
\* self.hardware_ready = True
Ready == Stmt("ready", 0, 0, "", NoCtl)

\* `if self.hardware_ready and hasattr(self, 'gpio') and self.gpio.is_connected:'
CloseTest == Stmt("close_test", 0, 0, "", NoCtl)
\* self.gpio.close()
Close == Stmt("close", 0, 0, "", NoCtl)

\* close_hardware: the test, then the try block
CloseHardwareBody == <<CloseTest, Assign(AllOff), Close>>

\* the except block of close_hardware
CloseHardwareExcept == <<Log("Error closing GPIO: e")>>

\* the try block of _init_hardware_thread
InitHardwareThread ==
    IF simulation
    THEN << Log("[SIMULATION] Initializing GPIO controller"),
            Ctor,
            Log("[SIMULATION] Configuring GPIO controller"),
            Log("[SIMULATION] Configuration args: ('ftdi://ftdi:232h/1',)"),
            Log("[SIMULATION] Configuration kwargs: {'direction': 65535, 'frequency': 6000000}"),
            Configure,
            Assign(AllOff),
            Ready,
            Log("[SIMULATION] Hardware initialized in simulation mode. All relays OFF.") >>
    ELSE << Ctor,
            Configure,
            Assign(AllOff),
            Ready,
            Log("Hardware initialized. All relays OFF.") >>

\* the except block of _init_hardware_thread
InitHardwareExcept ==
    << Ready,
       Log("[SIMULATION] Hardware not available, running in simulation mode"),
       Log("[SIMULATION] Error: e") >>

RECURSIVE ChangedRelays_NoDiff(_, _, _)
\* a write that reports the level of every relay, changed or not
ChangedRelays_NoDiff(old, state, i) ==
    IF i > 9 THEN <<>>
    ELSE << "[SIMULATION] Relay " \o R(i) \o " -> "
            \o (IF BitAt(state, i) = 1 THEN "OFF" ELSE "ON") >>
         \o ChangedRelays_NoDiff(old, state, i + 1)

RECURSIVE ChangedRelays(_, _, _)
\* GpioMpsseController.write of the simulated backend: one line per changed relay
ChangedRelays(old, state, i) ==
    IF i > 9 THEN <<>>
    ELSE (IF BitAt(old, i) # BitAt(state, i)
          THEN << "[SIMULATION] Relay " \o R(i) \o " -> "
                  \o (IF BitAt(state, i) = 1 THEN "OFF" ELSE "ON") >>
          ELSE <<>>)
         \o ChangedRelays(old, state, i + 1)

(***************************************************************************)
(* Threads.                                                                *)
(***************************************************************************)
Slots == 1..MaxThreads

NoThread ==
    [st |-> "free", op |-> "", args |-> <<>>, ctl |-> NoCtl, prog |-> <<>>,
     handler |-> <<>>]

Running(t) == threads[t].st = "run"

Idle == \A t \in Slots : ~Running(t)

\* the statement thread t executes next
Cur(t) == Head(threads[t].prog)

At(t, kinds) == Running(t) /\ state_lock # t /\ Cur(t).k \in kinds

FreeSlots == {t \in Slots : ~Running(t)}

FirstFree == CHOOSE t \in FreeSlots : \A u \in FreeSlots : t <= u

\* A statement that changes nothing but the position of its thread: a sleep,
\* the start of execute_sequence by a thread that then ends, a log line that
\* goes to the console.
Local(stmt) == stmt.k \in {"sleep", "spawn"} \/ (stmt.k = "log" /\ ~widget)

RECURSIVE Settle(_)
\* a thread passes its local statements together with the step before them
Settle(prog) ==
    IF prog # <<>> /\ Local(Head(prog)) THEN Settle(Tail(prog)) ELSE prog

\* threading.Thread(target=..., daemon=True).start()
StartThread(op, args, ctl, prog, handler) ==
    /\ FreeSlots # {}
    /\ threads' = [threads EXCEPT ![FirstFree] =
                     [st |-> IF Settle(prog) = <<>> THEN "done" ELSE "run",
                      op |-> op, args |-> args, ctl |-> ctl,
                      prog |-> Settle(prog), handler |-> handler]]

\* thread t goes on with the statements `rest'; it ends when none is left
Continue(t, rest) ==
    threads' = [threads EXCEPT ![t].prog = Settle(rest),
                               ![t].st = IF Settle(rest) = <<>> THEN "done" ELSE "run"]

\* Logger.log: the line goes to the widget if one is set, else to the console
Emit(lines) ==
    /\ log' = IF widget THEN log \o lines ELSE log
    /\ UNCHANGED queue

\* the debug gate, inside wait_for_next_step
\* self.step_ready.clear()
EventClear == Stmt("event_clear", 0, 0, "", NoCtl)
\* self.step_ready.wait()
EventWait == Stmt("event_wait", 0, 0, "", NoCtl)

(***************************************************************************)
(* Steps of a worker thread.                                               *)
(***************************************************************************)
\* a thread that builds its word from its own copy of the all-off word
\* instead of the shared current_state
Enter_OwnCopy(t) ==
    /\ At(t, {"clr", "set", "assign"})
    /\ state_lock = 0
    /\ state_lock' = t
    /\ current_state' = CASE Cur(t).k = "clr" -> AndNot(AllOff, Cur(t).a)
                          [] Cur(t).k = "set" -> BitOr(AllOff, Cur(t).a)
                          [] OTHER -> Cur(t).a
    /\ UNCHANGED <<hardware_ready, simulation, has_gpio, gpio_word, threads, disabled,
                   rows, debug_mode, step_ready, widget, log, queue, recording, writes,
                   connected, dialog, header, file>>

\* the first half of `with self.state_lock:': acquire, mutate the word
Enter(t) ==
    /\ At(t, {"clr", "set", "assign"})
    /\ state_lock = 0
    /\ state_lock' = t
    /\ current_state' = CASE Cur(t).k = "clr" -> AndNot(current_state, Cur(t).a)
                          [] Cur(t).k = "set" -> BitOr(current_state, Cur(t).a)
                          [] OTHER -> Cur(t).a
    /\ UNCHANGED <<hardware_ready, simulation, has_gpio, gpio_word, threads, disabled,
                   rows, debug_mode, step_ready, widget, log, queue, recording, writes,
                   connected, dialog, header, file>>

\* a critical section whose word never reaches the backend
Write_NotSent(t) ==
    /\ Running(t)
    /\ state_lock = t
    /\ has_gpio
    /\ state_lock' = 0
    /\ Continue(t, Tail(threads[t].prog))
    /\ UNCHANGED <<current_state, hardware_ready, simulation, has_gpio, gpio_word,
                   disabled, rows, debug_mode, step_ready, widget, log, queue,
                   recording, writes, connected, dialog, header, file>>

\* a write that leaves the lock held into the statements after it
Write_HoldLock(t) ==
    /\ Running(t)
    /\ state_lock = t
    /\ has_gpio
    /\ gpio_word' = current_state
    /\ writes' = IF recording THEN Append(writes, current_state) ELSE writes
    /\ Emit(IF simulation THEN ChangedRelays(gpio_word, current_state, 0) ELSE <<>>)
    /\ state_lock' = state_lock
    /\ Continue(t, Tail(threads[t].prog))
    /\ UNCHANGED <<current_state, hardware_ready, simulation, has_gpio, disabled, rows,
                   debug_mode, step_ready, widget, recording, connected, dialog, header,
                   file>>

\* the second half: self.gpio.write(self.current_state), release
Write(t) ==
    /\ Running(t)
    /\ state_lock = t
    /\ has_gpio
    /\ gpio_word' = current_state
    /\ writes' = IF recording THEN Append(writes, current_state) ELSE writes
    /\ Emit(IF simulation THEN ChangedRelays(gpio_word, current_state, 0) ELSE <<>>)
    /\ state_lock' = 0
    /\ Continue(t, Tail(threads[t].prog))
    /\ UNCHANGED <<current_state, hardware_ready, simulation, has_gpio, disabled, rows,
                   debug_mode, step_ready, widget, recording, connected, dialog, header,
                   file>>

\* An exception in thread t: the constructor or configure of the real backend
\* fails, self.gpio does not exist, or the real backend's write fails.  `with'
\* releases the lock; the thread goes to its except block or dies.
Raises(t) ==
    /\ Running(t)
    /\ \/ state_lock = t /\ (~has_gpio \/ ~simulation)
       \/ state_lock # t /\ Cur(t).k \in {"ctor", "configure"} /\ ~simulation
    /\ state_lock' = IF state_lock = t THEN 0 ELSE state_lock
    /\ threads' = [threads EXCEPT
                     ![t].prog = Settle(threads[t].handler),
                     ![t].handler = <<>>,
                     ![t].st = IF threads[t].handler = <<>> THEN "failed"
                               ELSE IF Settle(threads[t].handler) = <<>> THEN "done"
                               ELSE "run"]
    /\ UNCHANGED <<current_state, hardware_ready, simulation, has_gpio, gpio_word,
                   disabled, rows, debug_mode, step_ready, widget, log, queue,
                   recording, writes, connected, dialog, header, file>>

\* global_log in a worker thread with the event loop of the GUI thread idle:
\* the queued call of _append_to_widget is run at once
LogStep(t) ==
    /\ At(t, {"log"})
    /\ Emit(<<Cur(t).s>>)
    /\ Continue(t, Tail(threads[t].prog))
    /\ UNCHANGED <<current_state, state_lock, hardware_ready, simulation, has_gpio,
                   gpio_word, disabled, rows, debug_mode, step_ready, widget, recording,
                   writes, connected, dialog, header, file>>

\* global_log in a worker thread while the GUI thread is busy: log_signal is
\* connected to a slot of an object of the GUI thread, so the call is queued
PostStep(t) ==
    /\ At(t, {"log"})
    /\ queue' = IF widget THEN Append(queue, Cur(t).s) ELSE queue
    /\ Continue(t, Tail(threads[t].prog))
    /\ UNCHANGED <<current_state, state_lock, hardware_ready, simulation, has_gpio,
                   gpio_word, disabled, rows, debug_mode, step_ready, widget, log,
                   recording, writes, connected, dialog, header, file>>

\* an event loop that takes the newest queued call first
Deliver_NewestFirst ==
    /\ queue # <<>>
    /\ log' = IF widget THEN Append(log, queue[Len(queue)]) ELSE log
    /\ queue' = SubSeq(queue, 1, Len(queue) - 1)
    /\ UNCHANGED <<current_state, state_lock, hardware_ready, simulation, has_gpio,
                   gpio_word, threads, disabled, rows, debug_mode, step_ready, widget,
                   recording, writes, connected, dialog, header, file>>

\* the event loop of the GUI thread runs the oldest queued call:
\* Logger._append_to_widget
Deliver ==
    /\ queue # <<>>
    /\ log' = IF widget THEN Append(log, Head(queue)) ELSE log
    /\ queue' = Tail(queue)
    /\ UNCHANGED <<current_state, state_lock, hardware_ready, simulation, has_gpio,
                   gpio_word, threads, disabled, rows, debug_mode, step_ready, widget,
                   recording, writes, connected, dialog, header, file>>

\* self.gpio.configure(...): the link is opened, the word is not yet written
ConfigureStep(t) ==
    /\ At(t, {"configure"})
    /\ connected' = ~simulation
    /\ Continue(t, Tail(threads[t].prog))
    /\ UNCHANGED <<current_state, state_lock, hardware_ready, simulation, has_gpio,
                   gpio_word, disabled, rows, debug_mode, step_ready, widget, log,
                   queue, recording, writes, dialog, header, file>>

CtorStep(t) ==
    /\ At(t, {"ctor"})
    /\ has_gpio' = TRUE
    /\ Continue(t, Tail(threads[t].prog))
    /\ UNCHANGED <<current_state, state_lock, hardware_ready, simulation, gpio_word,
                   disabled, rows, debug_mode, step_ready, widget, log, queue,
                   recording, writes, connected, dialog, header, file>>

ReadyStep(t) ==
    /\ At(t, {"ready"})
    /\ hardware_ready' = TRUE
    /\ Continue(t, Tail(threads[t].prog))
    /\ UNCHANGED <<current_state, state_lock, simulation, has_gpio, gpio_word, disabled,
                   rows, debug_mode, step_ready, widget, log, queue, recording, writes,
                   connected, dialog, header, file>>

\* a worker that never gets to its setEnabled(True)
EnableStep_Never(t) ==
    /\ At(t, {"enable"})
    /\ FALSE
    /\ UNCHANGED vars

\* button.setEnabled(True), from the worker thread
EnableStep(t) ==
    /\ At(t, {"enable"})
    /\ disabled' = disabled \ {Cur(t).c}
    /\ Continue(t, Tail(threads[t].prog))
    /\ UNCHANGED <<current_state, state_lock, hardware_ready, simulation, has_gpio,
                   gpio_word, rows, debug_mode, step_ready, widget, log, queue,
                   recording, writes, connected, dialog, header, file>>

\* the call of program_zone: its hardware_ready test, then its body
ProgramZoneStep(t) ==
    /\ At(t, {"program_zone"})
    /\ Continue(t, (IF hardware_ready
                    THEN ProgramZoneBody(Cur(t).a, debug_mode)
                    ELSE <<>>) \o Tail(threads[t].prog))
    /\ UNCHANGED <<current_state, state_lock, hardware_ready, simulation, has_gpio,
                   gpio_word, disabled, rows, debug_mode, step_ready, widget, log,
                   queue, recording, writes, connected, dialog, header, file>>

\* program_scene_levels_sequence reads the table (channels_to_program)
ReadRowsStep(t) ==
    /\ At(t, {"read_rows"})
    /\ Continue(t, ProgramSceneLevelsRest(
                       ChannelsToProgram(rows, 1, Cur(t).a, Cur(t).b), Cur(t).a, Cur(t).b)
                   \o Tail(threads[t].prog))
    /\ UNCHANGED <<current_state, state_lock, hardware_ready, simulation, has_gpio,
                   gpio_word, disabled, rows, debug_mode, step_ready, widget, log,
                   queue, recording, writes, connected, dialog, header, file>>

\* allocate_to_zones_sequence takes the next row of the table, if there is one
AllocIterStep(t) ==
    /\ At(t, {"alloc_iter"})
    /\ Continue(t, (IF Cur(t).a <= Len(rows)
                    THEN AllocateChannel(Cur(t).a, AllocDigit(rows[Cur(t).a], Cur(t).b))
                         \o <<AllocIter(Cur(t).a + 1, Cur(t).b)>>
                    ELSE <<>>) \o Tail(threads[t].prog))
    /\ UNCHANGED <<current_state, state_lock, hardware_ready, simulation, has_gpio,
                   gpio_word, disabled, rows, debug_mode, step_ready, widget, log,
                   queue, recording, writes, connected, dialog, header, file>>

\* wait_for_next_step: `if self.debug_mode:'
WaitStepStep(t) ==
    /\ At(t, {"wait"})
    /\ Continue(t, (IF debug_mode
                    THEN <<Log("Waiting for Next Step button..."), EventClear, EventWait>>
                    ELSE <<>>) \o Tail(threads[t].prog))
    /\ UNCHANGED <<current_state, state_lock, hardware_ready, simulation, has_gpio,
                   gpio_word, disabled, rows, debug_mode, step_ready, widget, log,
                   queue, recording, writes, connected, dialog, header, file>>

\* the test of close_hardware: without a ready, existing and connected backend
\* close_hardware returns
CloseTestStep(t) ==
    /\ At(t, {"close_test"})
    /\ Continue(t, IF hardware_ready /\ has_gpio /\ connected
                   THEN Tail(threads[t].prog)
                   ELSE <<>>)
    /\ UNCHANGED <<current_state, state_lock, hardware_ready, simulation, has_gpio,
                   gpio_word, disabled, rows, debug_mode, step_ready, widget, log,
                   queue, recording, writes, connected, dialog, header, file>>

\* GpioMpsseController.close
CloseStep(t) ==
    /\ At(t, {"close"})
    /\ connected' = FALSE
    /\ Emit(IF simulation
            THEN <<"[SIMULATION] Closing GPIO controller",
                   "[SIMULATION] Final state: All relays OFF">>
            ELSE <<>>)
    /\ Continue(t, Tail(threads[t].prog))
    /\ UNCHANGED <<current_state, state_lock, hardware_ready, simulation, has_gpio,
                   gpio_word, disabled, rows, debug_mode, step_ready, widget,
                   recording, writes, dialog, header, file>>

\* a checkpoint that does not clear the event before it waits
EventClearStep_Keep(t) ==
    /\ At(t, {"event_clear"})
    /\ Continue(t, Tail(threads[t].prog))
    /\ UNCHANGED <<current_state, state_lock, hardware_ready, simulation, has_gpio,
                   gpio_word, disabled, rows, debug_mode, step_ready, widget, log, queue,
                   recording, writes, connected, dialog, header, file>>

\* self.step_ready.clear()
EventClearStep(t) ==
    /\ At(t, {"event_clear"})
    /\ step_ready' = FALSE
    /\ Continue(t, Tail(threads[t].prog))
    /\ UNCHANGED <<current_state, state_lock, hardware_ready, simulation, has_gpio,
                   gpio_word, disabled, rows, debug_mode, widget, log, queue, recording,
                   writes, connected, dialog, header, file>>

\* self.step_ready.wait(): returns once the event is set, and leaves it set
EventWaitStep(t) ==
    /\ At(t, {"event_wait"})
    /\ step_ready
    /\ Continue(t, Tail(threads[t].prog))
    /\ UNCHANGED <<current_state, state_lock, hardware_ready, simulation, has_gpio,
                   gpio_word, disabled, rows, debug_mode, step_ready, widget, log,
                   queue, recording, writes, connected, dialog, header, file>>

(***************************************************************************)
(* Handlers of the GUI thread.  A handler runs to its end in one step.     *)
(***************************************************************************)
Unchanged_but_threads ==
    UNCHANGED <<current_state, state_lock, hardware_ready, simulation, has_gpio,
                gpio_word, disabled, rows, debug_mode, step_ready, widget, log, queue,
                recording, writes, connected, dialog, header, file>>

\* `if not self.hardware_ready: self._show_error_slot(...); return', else the thread
IfReady(op, args, prog) ==
    IF hardware_ready
    THEN StartThread(op, args, NoCtl, prog, <<>>) /\ Unchanged_but_threads
    ELSE UNCHANGED vars

\* a toggle_relay that refuses while a sequence started by a control runs
ToggleRelay_BusyLocked(relay_number) ==
    IF \A t \in Slots : ~(Running(t) /\ threads[t].ctl # NoCtl)
    THEN IfReady("_toggle_relay_thread", <<relay_number>>, ToggleRelayThread(relay_number))
    ELSE UNCHANGED vars

\* toggle_relay: the buttons R0..R9
ToggleRelay(relay_number) ==
    IfReady("_toggle_relay_thread", <<relay_number>>, ToggleRelayThread(relay_number))

TestAllRelays == IfReady("_test_all_relays_thread", <<>>, TestAllRelaysThread)

ProgrammingMode == IfReady("_programming_mode_thread", <<>>, ProgrammingModeThread)

\* zone_left, zone_right
ZoneModes == { <<"Zone Left", <<8, 7, 1, 1>> >>, <<"Zone Right", <<8, 7, 2, 2>> >> }

ZoneMode(m) ==
    /\ m \in ZoneModes
    /\ IfReady("_sequence_mode_thread", m[2], SequenceModeThread(m[1], m[2]))

\* reset_mode: the sequence runs only after the confirmation
ResetMode(confirmed) ==
    IF ~hardware_ready THEN UNCHANGED vars
    ELSE IF confirmed
    THEN /\ StartThread("_sequence_mode_thread", <<4, 5, 6, 6>>, NoCtl,
                        SequenceModeThread("Reset", <<4, 5, 6, 6>>), <<>>)
         /\ Unchanged_but_threads
    ELSE /\ Emit(<<IF simulation THEN "[SIMULATION] Reset canceled." ELSE "Reset canceled.">>)
         /\ UNCHANGED <<current_state, state_lock, hardware_ready, simulation, has_gpio,
                        gpio_word, threads, disabled, rows, debug_mode, step_ready,
                        widget, recording, writes, connected, dialog, header, file>>

\* scene_mode("1"), channel_mode, level_mode, fade_short_mode, fade_long_mode,
\* circuit_activation, copy_mode, exit_programming_mode
SingleModes ==
    { <<"Scene Mode (1)", 1>>, <<"Channel Mode", 2>>, <<"Level Mode", 3>>,
      <<"Fade Short", 4>>, <<"Fade Long", 5>>, <<"Circuit Act.", 6>>, <<"Copy", 7>>,
      <<"Exit Prog Mode", 8>> }

SingleMode(m) ==
    /\ m \in SingleModes
    /\ IfReady("_single_press_mode_thread", <<m[2]>>, SinglePressModeThread(m[1], m[2]))

\* quick_scene, quick_circuit, quick_level, quick_fade
QuickModes ==
    { <<"Quick Scene", 1, 5>>, <<"Quick Circuit", 2, 6>>, <<"Quick Level", 3, 7>>,
      <<"Quick Fade", 4, 8>> }

QuickMode(m) ==
    /\ m \in QuickModes
    /\ IfReady("_double_press_mode_thread", <<m[2], m[3]>>,
               DoublePressModeThread(m[1], m[2], m[3]))

\* The "P" button of channel ch, column idx: play_level_with_lock, then
\* play_scene_level (which has no hardware_ready test).
PlayLevelWithLock(ch, idx) ==
    /\ ch \in 1..Len(rows)
    /\ idx \in 0..9
    /\ PButton(ch, idx) \notin disabled
    /\ disabled' = disabled \cup {PButton(ch, idx)}
    /\ Emit(<< (IF simulation THEN "[SIMULATION] " ELSE "")
               \o "Playing channel " \o ToString(ch) \o ", scene "
               \o ToString(SceneDigitOf(idx)) \o " with level "
               \o Fmt02(rows[ch].scenes[idx + 1]) >>)
    /\ StartThread("_play_scene_level_sequence",
                   <<ch, SceneDigitOf(idx), rows[ch].scenes[idx + 1]>>,
                   PButton(ch, idx),
                   PlaySceneLevelSequence(ch, SceneDigitOf(idx), rows[ch].scenes[idx + 1],
                                          PButton(ch, idx)),
                   <<>>)
    /\ UNCHANGED <<current_state, state_lock, hardware_ready, simulation, has_gpio,
                   gpio_word, rows, debug_mode, step_ready, widget, recording, writes,
                   connected, dialog, header, file>>

\* an on_program_scene_levels that disables its button before it asks
OnProgramSceneLevels_DisableFirst(scene_digit, zone, accepted) ==
    /\ ProgramButton \notin disabled
    /\ disabled' = disabled \cup {ProgramButton}
    /\ IF accepted
       THEN StartThread("program_scene_levels_sequence", <<scene_digit, zone>>,
                        ProgramButton, ProgramSceneLevelsSequence(scene_digit, zone),
                        <<>>)
       ELSE threads' = threads
    /\ UNCHANGED <<current_state, state_lock, hardware_ready, simulation, has_gpio,
                   gpio_word, rows, debug_mode, step_ready, widget, log, queue,
                   recording, writes, connected, dialog, header, file>>

\* on_program_scene_levels: two selection dialogs and a confirmation
OnProgramSceneLevels(scene_digit, zone, accepted) ==
    /\ ProgramButton \notin disabled
    /\ IF accepted
       THEN /\ disabled' = disabled \cup {ProgramButton}
            /\ StartThread("program_scene_levels_sequence", <<scene_digit, zone>>,
                           ProgramButton, ProgramSceneLevelsSequence(scene_digit, zone),
                           <<>>)
            /\ UNCHANGED <<current_state, state_lock, hardware_ready, simulation,
                           has_gpio, gpio_word, rows, debug_mode, step_ready, widget,
                           log, queue, recording, writes, connected, dialog, header,
                           file>>
       ELSE UNCHANGED vars

\* a confirmation that starts the allocation without disabling its button
OnAllocateToZones_NoDisable(zone, accepted) ==
    /\ IF accepted
       THEN /\ StartThread("allocate_to_zones_sequence", <<zone>>, AllocateButton,
                           AllocateToZonesSequence(zone), <<>>)
            /\ UNCHANGED <<current_state, state_lock, hardware_ready, simulation,
                           has_gpio, gpio_word, disabled, rows, debug_mode, step_ready,
                           widget, log, queue, recording, writes, connected, dialog,
                           header, file>>
       ELSE UNCHANGED vars

\* on_allocate_to_zones: a selection dialog and a confirmation
OnAllocateToZones(zone, accepted) ==
    /\ AllocateButton \notin disabled
    /\ IF accepted
       THEN /\ disabled' = disabled \cup {AllocateButton}
            /\ StartThread("allocate_to_zones_sequence", <<zone>>, AllocateButton,
                           AllocateToZonesSequence(zone), <<>>)
            /\ UNCHANGED <<current_state, state_lock, hardware_ready, simulation,
                           has_gpio, gpio_word, rows, debug_mode, step_ready, widget,
                           log, queue, recording, writes, connected, dialog, header,
                           file>>
       ELSE UNCHANGED vars

\* toggle_debug_mode: switching the mode off releases the waiting threads
ToggleDebugMode ==
    /\ debug_mode' = ~debug_mode
    /\ step_ready' = IF debug_mode THEN TRUE ELSE step_ready
    /\ Emit(<<IF debug_mode THEN "Debug mode disabled" ELSE "Debug mode enabled">>)
    /\ UNCHANGED <<current_state, state_lock, hardware_ready, simulation, has_gpio,
                   gpio_word, threads, disabled, rows, widget, recording, writes,
                   connected, dialog, header, file>>

\* on_next_step; the Next Step button is enabled only while debug mode is on
OnNextStep ==
    /\ debug_mode
    /\ Emit(<<"Proceeding to next step...">>)
    /\ step_ready' = TRUE
    /\ UNCHANGED <<current_state, state_lock, hardware_ready, simulation, has_gpio,
                   gpio_word, threads, disabled, rows, debug_mode, widget, recording,
                   writes, connected, dialog, header, file>>

\* the user selects zone z in the zone combo box of row ch
EditZone(ch, z) ==
    /\ ch \in 1..Len(rows)
    /\ z \in Digits
    /\ rows' = [rows EXCEPT ![ch].zone = z]
    /\ UNCHANGED <<current_state, state_lock, hardware_ready, simulation, has_gpio,
                   gpio_word, threads, disabled, debug_mode, step_ready, widget, log,
                   queue, recording, writes, connected, dialog, header, file>>

\* the user sets the spin box of row ch, scene column idx, to `level'
EditLevel(ch, idx, level) ==
    /\ ch \in 1..Len(rows)
    /\ idx \in 0..9
    /\ level \in 0..99
    /\ rows' = [rows EXCEPT ![ch].scenes[idx + 1] = level]
    /\ UNCHANGED <<current_state, state_lock, hardware_ready, simulation, has_gpio,
                   gpio_word, threads, disabled, debug_mode, step_ready, widget, log,
                   queue, recording, writes, connected, dialog, header, file>>

\* close_hardware, called on application exit; its steps are taken as those of
\* a thread of its own
CloseHardware ==
    /\ StartThread("close_hardware", <<>>, NoCtl, CloseHardwareBody, CloseHardwareExcept)
    /\ Unchanged_but_threads

\* MainWindow.clear_log pressed at any time: Logger.clear in the GUI thread,
\* the widget is cleared at once and the queued calls stay queued
ClearGlobalLog ==
    /\ log' = <<>>
    /\ UNCHANGED <<current_state, state_lock, hardware_ready, simulation, has_gpio,
                   gpio_word, threads, disabled, rows, debug_mode, step_ready, widget,
                   queue, recording, writes, connected, dialog, header, file>>

\* MainWindow.clear_log; with it the recording is restarted and the finished
\* threads are forgotten
ClearLog ==
    /\ Idle
    /\ log # <<>> \/ writes # <<>>
    /\ log' = <<>>
    /\ writes' = <<>>
    /\ threads' = [t \in Slots |-> NoThread]
    /\ UNCHANGED <<current_state, state_lock, hardware_ready, simulation, has_gpio,
                   gpio_word, disabled, rows, debug_mode, step_ready, widget, recording,
                   queue, connected, dialog, header, file>>

(***************************************************************************)
(* The tables the runs start from.                                         *)
(***************************************************************************)
MaxZone == 2         \* the zones 1..MaxZone occur in the tables

\* scene_defaults, with "00" for Scene 0
SceneDefaults == <<90, 70, 50, 30, 99, 99, 99, 99, 99, 0>>

\* levels edited by the user: row ch has (10 * column + ch) % 100
EditedScenes(ch) == [j \in 1..10 |-> (10 * j + ch) % 100]

\* create_row: zone "1", empty dim ref and name, type "Dimmed", the defaults
DefaultRow ==
    [zone |-> 1, dim_ref |-> "", name |-> "", type |-> "Dimmed", scenes |-> SceneDefaults]

\* the items of the type combo box
RowTypes == {"Dimmed", "Switched", "Switched1to10"}

\* read_table_data: the rows as texts, the levels as f"{value:02d}"
ReadTableData(table) ==
    [idx \in 1..Len(table) |->
        [channel |-> idx,
         zone |-> ToString(table[idx].zone),
         dimRef |-> table[idx].dim_ref,
         name |-> table[idx].name,
         type |-> table[idx].type,
         scenes |-> [j \in 1..10 |-> Fmt02(table[idx].scenes[j])]]]

\* QComboBox.setCurrentText on the zone box: a text that is no item of the box
\* leaves the selection
SetZoneText(zone, text) == IF text \in DigitChars THEN DigitValue(text) ELSE zone

\* QComboBox.setCurrentText on the type box
SetTypeText(type, text) == IF text \in RowTypes THEN text ELSE type

\* QSpinBox.setValue with the range 0..99
SetValue(v) == IF v < 0 THEN 0 ELSE IF v > 99 THEN 99 ELSE v

\* the setting of a row from an entry whose levels are all numerals
SetRow(row, entry) ==
    [zone |-> SetZoneText(row.zone, entry.zone),
     dim_ref |-> entry.dimRef,
     name |-> entry.name,
     type |-> SetTypeText(row.type, entry.type),
     scenes |-> [j \in 1..10 |->
                    IF j <= Len(entry.scenes)
                    THEN SetValue(ParseInt(entry.scenes[j]).value)
                    ELSE row.scenes[j]]]

\* a rebuild that forgets the data of the rows it keeps
RebuildTable_Fresh(table, num_channels) == [i \in 1..num_channels |-> DefaultRow]

\* rebuild_table: the old data are read, num_channels rows are created and the
\* first min(num_channels, len(old_data)) of them are set from the old data
RebuildTable(table, num_channels) ==
    LET old_data == IF table # <<>> THEN ReadTableData(table) ELSE <<>> IN
    [i \in 1..num_channels |->
        IF i <= Len(old_data) THEN SetRow(DefaultRow, old_data[i]) ELSE DefaultRow]

\* on_generate_table at construction: num_channels_entry is "18"
InitialChannels == 18

InitialTable == [ch \in 1..InitialChannels |-> DefaultRow]

\* The table whose rows have the zones zs after edits of the user: the dim
\* ref, name, type and levels of the even channels are edited.
TableOf(zs) ==
    [ch \in 1..Len(zs) |-> [zone |-> zs[ch],
                            dim_ref |-> IF ch % 2 = 0 THEN "D" \o ToString(ch) ELSE "",
                            name |-> IF ch % 2 = 0 THEN "Lamp " \o ToString(ch) ELSE "",
                            type |-> IF ch % 2 = 0 THEN "Switched" ELSE "Dimmed",
                            scenes |-> IF ch % 2 = 0 THEN EditedScenes(ch)
                                       ELSE SceneDefaults]]

\* the tables of 1..MaxRows channels with zones of `zones'
TablesOver(zones) ==
    UNION { { TableOf(zs) : zs \in [1..n -> zones] } : n \in 1..MaxRows }

Tables == TablesOver(1..MaxZone)

\* the zones a dialog run of the model selects
DialogZones == 0..MaxZone

(***************************************************************************)
(* The CSV text of a table.                                                *)
(***************************************************************************)
\* self.scene_labels
SceneLabels ==
    [i \in 1..10 |-> "Scene " \o (IF i < 10 THEN ToString(i) ELSE "0")]

\* [""] * n
Empties(n) == [i \in 1..n |-> ""]

\* the number of fields of a line of the file
CsvFields == 5 + Len(SceneLabels)

\* generate_csv_data
GenerateCsvData(hdr, table) ==
    LET line1 == <<"Site Name:", Strip(hdr.site_name)>> \o Empties(CsvFields - 2)
        line2 == <<"Date:", Strip(hdr.site_date)>> \o Empties(CsvFields - 2)
        headers == <<"Channel", "Zone", "Dim Ref", "Name", "Type">> \o SceneLabels
        table_data == ReadTableData(table)
        RowLine(entry) ==
            Join(<<ToString(entry.channel), entry.zone, entry.dimRef, entry.name,
                   entry.type>> \o entry.scenes, ",")
    IN Join(<<Join(line1, ","), Join(line2, ","), Join(headers, ",")>>
            \o [i \in 1..Len(table_data) |-> RowLine(table_data[i])], "\n")

\* [cell.strip() for cell in line.split(",")]
Cells(line) ==
    LET parts == Split(line, ",") IN [i \in 1..Len(parts) |-> Strip(parts[i])]

\* parse_csv: ok = FALSE stands for the exception, `error' for its text
ParseCsv(csv_text) ==
    LET all == SplitLines(csv_text)
        lines == SelectSeq(all, LAMBDA line : Strip(line) # "")
        NoResult(error) ==
            [ok |-> FALSE, error |-> error, siteName |-> "", siteDate |-> "",
             rows |-> <<>>]
    IN IF Len(lines) < 4 THEN NoResult("CSV does not have enough lines.")
       ELSE IF Len(Split(lines[1], ",")) < 2 \/ Len(Split(lines[2], ",")) < 2
       THEN NoResult("list index out of range")
       ELSE LET data == SelectSeq(SubSeq(lines, 4, Len(lines)),
                                  LAMBDA line : Len(Cells(line)) >= CsvFields)
            IN [ok |-> TRUE, error |-> "",
                siteName |-> Strip(Split(lines[1], ",")[2]),
                siteDate |-> Strip(Split(lines[2], ",")[2]),
                rows |-> [i \in 1..Len(data) |->
                             LET cells == Cells(data[i]) IN
                             [channel |-> cells[1], zone |-> cells[2],
                              dimRef |-> cells[3], name |-> cells[4],
                              type |-> cells[5], scenes |-> SubSeq(cells, 6, CsvFields)]]]

\* the first level of an entry that int() does not accept, 11 if there is none
FirstBadLevel(entry) ==
    LET bad == {j \in 1..10 : ~ParseInt(entry.scenes[j]).ok} IN
    IF bad = {} THEN 11 ELSE CHOOSE j \in bad : \A k \in bad : j <= k

\* the setting of a row from an entry up to the level at which int() raises
SetRowUntil(row, entry) ==
    [zone |-> SetZoneText(row.zone, entry.zone),
     dim_ref |-> entry.dimRef,
     name |-> entry.name,
     type |-> SetTypeText(row.type, entry.type),
     scenes |-> [j \in 1..10 |->
                    IF j < FirstBadLevel(entry)
                    THEN SetValue(ParseInt(entry.scenes[j]).value)
                    ELSE row.scenes[j]]]

\* the loop of on_import_csv over the entries: it ends at the first entry
\* with a level that int() does not accept
ImportEntries(table, entries) ==
    LET failing == {i \in 1..Len(entries) : FirstBadLevel(entries[i]) <= 10}
        stop == IF failing = {} THEN Len(entries) + 1
                ELSE CHOOSE i \in failing : \A k \in failing : i <= k
    IN [ok |-> failing = {},
        error |-> IF failing = {} THEN ""
                  ELSE "invalid literal for int() with base 10: '"
                       \o entries[stop].scenes[FirstBadLevel(entries[stop])] \o "'",
        rows |-> [i \in 1..Len(table) |->
                     IF i <= stop /\ i <= Len(entries)
                     THEN SetRowUntil(table[i], entries[i])
                     ELSE table[i]]]

(***************************************************************************)
(* Handlers of the levels sheet that work on the table.                    *)
(***************************************************************************)
\* the user types `text' into num_channels_entry
TypeNumChannels(text) ==
    /\ header' = [header EXCEPT !.num_channels = text]
    /\ UNCHANGED <<current_state, state_lock, hardware_ready, simulation, has_gpio,
                   gpio_word, threads, disabled, rows, debug_mode, step_ready, widget,
                   log, queue, recording, writes, connected, dialog, file>>

\* an on_generate_table without the test for a count below 1
OnGenerateTable_Unchecked ==
    LET num_channels == ParseInt(header.num_channels) IN
    /\ IF ~num_channels.ok
       THEN /\ dialog' = <<"Input Error",
                           "invalid literal for int() with base 10: '"
                           \o header.num_channels \o "'">>
            /\ rows' = rows
       ELSE /\ rows' = RebuildTable(rows, IF num_channels.value < 0 THEN 0
                                          ELSE num_channels.value)
            /\ dialog' = dialog
    /\ UNCHANGED <<current_state, state_lock, hardware_ready, simulation, has_gpio,
                   gpio_word, threads, disabled, debug_mode, step_ready, widget, log,
                   queue, recording, writes, connected, header, file>>

\* on_generate_table: a ValueError of int() or of the test ends in the
\* QMessageBox.critical with str(e)
OnGenerateTable ==
    LET num_channels == ParseInt(header.num_channels) IN
    /\ IF ~num_channels.ok
       THEN /\ dialog' = <<"Input Error",
                           "invalid literal for int() with base 10: '"
                           \o header.num_channels \o "'">>
            /\ rows' = rows
       ELSE IF num_channels.value < 1
       THEN /\ dialog' = <<"Input Error", "Number of channels must be positive">>
            /\ rows' = rows
       ELSE /\ rows' = RebuildTable(rows, num_channels.value)
            /\ dialog' = dialog
    /\ UNCHANGED <<current_state, state_lock, hardware_ready, simulation, has_gpio,
                   gpio_word, threads, disabled, debug_mode, step_ready, widget, log,
                   queue, recording, writes, connected, header, file>>

\* on_save_csv with a file chosen in the dialog
OnSaveCsv ==
    /\ file' = GenerateCsvData(header, rows)
    /\ Emit(<<"CSV saved successfully.">>)
    /\ UNCHANGED <<current_state, state_lock, hardware_ready, simulation, has_gpio,
                   gpio_word, threads, disabled, rows, debug_mode, step_ready, widget,
                   recording, writes, connected, dialog, header>>

\* on_import_csv with a file chosen in the dialog: an exception of parse_csv
\* or of a later statement ends in the QMessageBox.critical, with what was
\* set before it left set
OnImportCsv ==
    LET parsed == ParseCsv(file)
        rebuilt == RebuildTable(rows, Len(parsed.rows))
        imported == ImportEntries(rebuilt, parsed.rows)
    IN
    /\ IF ~parsed.ok
       THEN /\ dialog' = <<"Import CSV", "Error importing CSV: " \o parsed.error>>
            /\ UNCHANGED <<rows, header, log, queue>>
       ELSE /\ header' = [site_name |-> parsed.siteName, site_date |-> parsed.siteDate,
                          num_channels |-> ToString(Len(parsed.rows))]
            /\ rows' = imported.rows
            /\ IF imported.ok
               THEN Emit(<<"CSV imported successfully.">>) /\ dialog' = dialog
               ELSE /\ dialog' = <<"Import CSV", "Error importing CSV: " \o imported.error>>
                    /\ UNCHANGED <<log, queue>>
    /\ UNCHANGED <<current_state, state_lock, hardware_ready, simulation, has_gpio,
                   gpio_word, threads, disabled, debug_mode, step_ready, widget,
                   recording, writes, connected, file>>

(***************************************************************************)
(* The state after construction: the hardware initialisation thread has    *)
(* been started and has not run yet.                                       *)
(***************************************************************************)
\* the state after construction with the header entries hdr (site name and
\* date as typed by the user) and the CSV file `text' on the disk
ConstructedWith(table, sim, has_widget, is_recording, hdr, text) ==
    /\ current_state = AllOff
    /\ state_lock = 0
    /\ hardware_ready = FALSE
    /\ simulation = sim
    /\ widget = has_widget
    /\ has_gpio = FALSE
    /\ gpio_word = AllOff
    /\ threads = [t \in Slots |->
                    IF t = 1
                    THEN [st |-> "run", op |-> "_init_hardware_thread", args |-> <<>>,
                          ctl |-> NoCtl,
                          prog |-> Settle(InitHardwareThread),
                          handler |-> InitHardwareExcept]
                    ELSE NoThread]
    /\ disabled = {}
    /\ rows = table
    /\ debug_mode = FALSE
    /\ step_ready = FALSE
    /\ log = <<>>
    /\ queue = <<>>
    /\ recording = is_recording
    /\ writes = <<>>
    /\ connected = FALSE
    /\ dialog = <<>>
    /\ header = hdr
    /\ file = text

\* the header entries over a table of n channels: num_channels_entry holds n
HeaderOf(site_name, site_date, n) ==
    [site_name |-> site_name, site_date |-> site_date, num_channels |-> ToString(n)]

Constructed(table, sim, has_widget, is_recording) ==
    ConstructedWith(table, sim, has_widget, is_recording,
                    HeaderOf("", "", Len(table)), "")

(***************************************************************************)
(* Relay commands run one at a time, with a log widget and a recording     *)
(* GPIO link: a command is given only when no thread runs and the log and  *)
(* the recording are empty.                                                *)
(***************************************************************************)
Quiet == Idle /\ log = <<>> /\ writes = <<>>

RelayInit == \E sim \in BOOLEAN : Constructed(InitialTable, sim, TRUE, TRUE)

RelayCommand ==
    \/ \E r \in Digits : ToggleRelay(r)
    \/ TestAllRelays
    \/ ProgrammingMode
    \/ \E m \in ZoneModes : ZoneMode(m)
    \/ \E c \in BOOLEAN : ResetMode(c)
    \/ \E m \in SingleModes : SingleMode(m)
    \/ \E m \in QuickModes : QuickMode(m)

RelayNext ==
    \/ \E t \in Slots : Enter(t)
    \/ \E t \in Slots : Write(t)
    \/ \E t \in Slots : LogStep(t)
    \/ \E t \in Slots : ConfigureStep(t)
    \/ \E t \in Slots : CtorStep(t)
    \/ \E t \in Slots : ReadyStep(t)
    \/ Quiet /\ RelayCommand
    \/ ClearLog

SpecRelay == RelayInit /\ [][RelayNext]_vars

(***************************************************************************)
(* Words a recording shows, written out bit by bit.                        *)
(***************************************************************************)
\* the word with exactly the relays of `on' energized
WordWith(on) == AllOff - (IF 0 \in on THEN 1 ELSE 0) - (IF 1 \in on THEN 2 ELSE 0)
                       - (IF 2 \in on THEN 4 ELSE 0) - (IF 3 \in on THEN 8 ELSE 0)
                       - (IF 4 \in on THEN 16 ELSE 0) - (IF 5 \in on THEN 32 ELSE 0)
                       - (IF 6 \in on THEN 64 ELSE 0) - (IF 7 \in on THEN 128 ELSE 0)
                       - (IF 8 \in on THEN 256 ELSE 0) - (IF 9 \in on THEN 512 ELSE 0)

IsPrefix(p, q) == Len(p) <= Len(q) /\ SubSeq(q, 1, Len(p)) = p

Alive(t) == threads[t].st \in {"run", "done"}

Done(t) == threads[t].st = "done"

\* C1: a single pulse of relay i run alone makes exactly two GPIO writes, the
\* first with only bit i cleared, the second with all bits set again; on the
\* GPIO link bit i is 0 exactly between the two writes.
C1_TogglePulse ==
    \A t \in Slots :
        (Alive(t) /\ threads[t].op = "_toggle_relay_thread") =>
            LET i == threads[t].args[1] IN
            /\ IsPrefix(writes, <<WordWith({i}), AllOff>>)
            /\ Done(t) => Len(writes) = 2
            /\ (BitAt(gpio_word, i) = 0) <=> (Len(writes) = 1)
            /\ \A j \in 0..15 : j # i => BitAt(gpio_word, j) = 1

C1_Witness ==
    \E t \in Slots :
        /\ Done(t) /\ threads[t].op = "_toggle_relay_thread"
        /\ threads[t].args = <<9>> /\ Len(writes) = 2

\* the ten words of a guarded sequence over four digits
GuardedMultiWords(q) ==
    << WordWith({0, 9}), WordWith({0, 9, q[1]}), WordWith({0, 9}),
       WordWith({0, 9, q[2]}), WordWith({0, 9}), WordWith({0, 9, q[3]}),
       WordWith({0, 9}), WordWith({0, 9, q[4]}), WordWith({0, 9}), AllOff >>

SequenceOf(t) ==
    IF threads[t].op = "_programming_mode_thread" THEN <<2, 1, 2, 1>>
    ELSE threads[t].args

\* C2: a guarded sequence over [a,b,c,d] run alone writes guardOn, a ON, a OFF,
\* b ON, b OFF, c ON, c OFF, d ON, d OFF, guardOff: ten writes, and bits 0 and 9
\* are 0 in every write before the last.
C2_GuardedMulti ==
    \A t \in Slots :
        (Alive(t) /\ threads[t].op \in {"_sequence_mode_thread", "_programming_mode_thread"}) =>
            /\ IsPrefix(writes, GuardedMultiWords(SequenceOf(t)))
            /\ Done(t) => Len(writes) = 10
            /\ \A k \in 1..Len(writes) :
                   k < 10 => BitAt(writes[k], 0) = 0 /\ BitAt(writes[k], 9) = 0

C2_Witness ==
    \E t \in Slots :
        /\ Done(t) /\ threads[t].op = "_sequence_mode_thread"
        /\ threads[t].args = <<4, 5, 6, 6>> /\ Len(writes) = 10

\* C3: a double press of A and B makes exactly two writes, one clearing both
\* bits and one setting both; no written word has the two bits different.
C3_DoublePress ==
    \A t \in Slots :
        (Alive(t) /\ threads[t].op = "_double_press_mode_thread") =>
            LET A == threads[t].args[1]
                B == threads[t].args[2] IN
            /\ IsPrefix(writes, <<WordWith({A, B}), AllOff>>)
            /\ Done(t) => Len(writes) = 2
            /\ \A k \in 1..Len(writes) : BitAt(writes[k], A) = BitAt(writes[k], B)

C3_Witness ==
    \E t \in Slots :
        /\ Done(t) /\ threads[t].op = "_double_press_mode_thread"
        /\ threads[t].args = <<4, 8>> /\ Len(writes) = 2

\* the four words of a guarded single pulse of digit d
GuardedSingleWords(d) ==
    << WordWith({0, 9}), WordWith({0, 9, d}), WordWith({0, 9}), AllOff >>

\* C15: every single-mode trigger run alone writes guardOn, the digit's ON
\* write, the digit's OFF write, guardOff, in that order: four writes, and
\* bits 0 and 9 are 0 in every write that has the digit's bit 0.
C15_GuardedSingle ==
    \A t \in Slots :
        (Alive(t) /\ threads[t].op = "_single_press_mode_thread") =>
            LET d == threads[t].args[1] IN
            /\ IsPrefix(writes, GuardedSingleWords(d))
            /\ Done(t) => Len(writes) = 4
            /\ \A k \in 1..Len(writes) :
                   BitAt(writes[k], d) = 0 =>
                       BitAt(writes[k], 0) = 0 /\ BitAt(writes[k], 9) = 0

\* the run in the log is the one of the Zone Right button
ZoneRightRun ==
    /\ Len(log) > 0
    /\ log[1] \in {"Zone Right: Start", "[SIMULATION] Zone Right: Start"}

\* C16: the Zone Right command run alone is the guarded sequence over the
\* digits 8, 7, 1, 2: its writes are guardOn, then the pulses of relays 8, 7,
\* 1 and 2 in that order, then guardOff.
C16_ZoneRightDigits ==
    ZoneRightRun =>
        /\ IsPrefix(writes, GuardedMultiWords(<<8, 7, 1, 2>>))
        /\ (\A t \in Slots : ~Running(t)) => Len(writes) = 10

(***************************************************************************)
(* Play ("P" buttons) run one at a time, from the table of construction    *)
(* or an edited one.                                                       *)
(***************************************************************************)
PlayTables == TablesOver({1}) \cup {InitialTable}

PlayInit == \E table \in PlayTables, sim \in BOOLEAN : Constructed(table, sim, TRUE, TRUE)

PlayCommand == \E ch \in 1..Len(rows), idx \in 0..9 : PlayLevelWithLock(ch, idx)

PlayNext ==
    \/ \E t \in Slots : Enter(t)
    \/ \E t \in Slots : Write(t)
    \/ \E t \in Slots : LogStep(t)
    \/ \E t \in Slots : ConfigureStep(t)
    \/ \E t \in Slots : CtorStep(t)
    \/ \E t \in Slots : ReadyStep(t)
    \/ \E t \in Slots : EnableStep(t)
    \/ Quiet /\ PlayCommand
    \/ ClearLog

SpecPlay == PlayInit /\ [][PlayNext]_vars

\* the words of one pulse of relay d without guard, and of a double press
PulseWords(d) == <<WordWith({d}), AllOff>>

\* the words of Exit Programming Mode: relay 8 under guard
ExitWords == <<WordWith({0, 9}), WordWith({0, 8, 9}), WordWith({0, 9}), AllOff>>

\* the words of the two decimal digits of n (n < 100), tens first
TwoDigitWords(n) == PulseWords(n \div 10) \o PulseWords(n % 10)

EntryWords(channel, level) ==
    <<WordWith({2, 6}), AllOff>> \o TwoDigitWords(channel)
    \o <<WordWith({3, 7}), AllOff>> \o TwoDigitWords(level)

PlayWords(channel, scene_digit, level) ==
    ExitWords
    \o GuardedMultiWords(<<2, 1, 2, 1>>)
    \o <<WordWith({1, 5}), AllOff>>
    \o PulseWords(scene_digit)
    \o EntryWords(channel, level)
    \o ExitWords

\* C4: a play of (channel, sceneDigit, level) run alone writes, in this order,
\* exit programming mode (8 under guard), programming mode (2,1,2,1 under
\* guard), double press {1,5}, the scene digit, double press {2,6}, the two
\* channel digits, double press {3,7}, the two level digits, exit programming
\* mode; its button is enabled again only after the last of these writes.
C4_PlayOrder ==
    \A t \in Slots :
        (Alive(t) /\ threads[t].op = "_play_scene_level_sequence") =>
            LET words == PlayWords(threads[t].args[1], threads[t].args[2],
                                   threads[t].args[3]) IN
            /\ IsPrefix(writes, words)
            /\ threads[t].ctl \notin disabled => writes = words
            /\ Done(t) => writes = words /\ threads[t].ctl \notin disabled

C4_Witness ==
    \E t \in Slots :
        /\ Done(t) /\ threads[t].op = "_play_scene_level_sequence"
        /\ threads[t].args = <<12, 4, 30>>
        /\ Len(writes) = 34
        /\ disabled = {}

(***************************************************************************)
(* Program Scene and Allocate to Zones run one at a time, after the        *)
(* hardware initialisation, with debug mode off.                           *)
(***************************************************************************)
\* the tables of the runs: those over the zones 1..MaxZone and two tables
\* with zones 2,3,2 and 5,1,5
SheetTables == Tables \cup {TableOf(<<2, 3, 2>>), TableOf(<<5, 1, 5>>)}

\* the zones and scenes chosen in the dialogs of the runs (the dialogs offer
\* 0..9): scene "0", which has its own column rule, and both ends of 1..9
SheetZones == {0, 1, 2, 5}

SheetScenes == {0, 1, 9}

SheetInit == \E table \in SheetTables, sim \in BOOLEAN : Constructed(table, sim, TRUE, TRUE)

SheetCommand ==
    \/ \E scene_digit \in SheetScenes, zone \in SheetZones, accepted \in BOOLEAN :
           OnProgramSceneLevels(scene_digit, zone, accepted)
    \/ \E zone \in SheetZones, accepted \in BOOLEAN : OnAllocateToZones(zone, accepted)

SheetNext ==
    \/ \E t \in Slots : Enter(t)
    \/ \E t \in Slots : Write(t)
    \/ \E t \in Slots : LogStep(t)
    \/ \E t \in Slots : ConfigureStep(t)
    \/ \E t \in Slots : CtorStep(t)
    \/ \E t \in Slots : ReadyStep(t)
    \/ \E t \in Slots : EnableStep(t)
    \/ \E t \in Slots : ProgramZoneStep(t)
    \/ \E t \in Slots : ReadRowsStep(t)
    \/ \E t \in Slots : AllocIterStep(t)
    \/ \E t \in Slots : WaitStepStep(t)
    \/ Quiet /\ SheetCommand
    \/ ClearLog

SpecSheet == SheetInit /\ [][SheetNext]_vars

\* the words of zoneProgram(zone): 8,7,1,1 under guard, the zone digit,
\* 8,7,2,2 under guard, the zone digit
ZoneWords(zone) ==
    GuardedMultiWords(<<8, 7, 1, 1>>) \o PulseWords(zone)
    \o GuardedMultiWords(<<8, 7, 2, 2>>) \o PulseWords(zone)

\* what both composites of the sheet write before their first row
LeadWords(zone) == ExitWords \o ZoneWords(zone) \o GuardedMultiWords(<<2, 1, 2, 1>>)

\* the channels of `table' in zone `zone'
Matching(table, zone) == {ch \in 1..Len(table) : table[ch].zone = zone}

\* the number of channels up to ch that are in zone `zone'
RankOf(table, zone, ch) == Cardinality({c \in Matching(table, zone) : c <= ch})

\* the level of the claim: scenes[9] for scene "0", scenes[scene-1] otherwise
\* (0-based), that is column 10 or column `scene' of the row
LevelForScene(row, scene) == IF scene = 0 THEN row.scenes[10] ELSE row.scenes[scene]

\* writes made before the first channel entry of Program Scene
ProgramLead == Len(LeadWords(0)) + 4

\* writes of one channel entry with its level entry
EntryLen == Len(EntryWords(0, 0))

\* C5: Program Scene (scene, zone), run alone, writes for each row whose zone
\* is the target zone, in table order, one entry of the two channel digits
\* followed by one entry of the two level digits, the level being column 10 of
\* the row for scene "0" and column `scene' otherwise; rows of another zone
\* add no write: a finished run has made 12 writes per matching row between
\* its lead and its final exit.
C5_MatchingRowsOnly ==
    \A t \in Slots :
        (Alive(t) /\ threads[t].op = "program_scene_levels_sequence") =>
            LET scene == threads[t].args[1]
                zone == threads[t].args[2]
                n == Cardinality(Matching(rows, zone)) IN
            /\ Len(writes) <= ProgramLead + EntryLen * n + Len(ExitWords)
            /\ Done(t) => Len(writes) = ProgramLead + EntryLen * n + Len(ExitWords)
            /\ \A ch \in Matching(rows, zone) :
                   LET k == RankOf(rows, zone, ch)
                       to == ProgramLead + EntryLen * k IN
                   Len(writes) >= to =>
                       SubSeq(writes, to - EntryLen + 1, to)
                           = EntryWords(ch, LevelForScene(rows[ch], scene))

C5_Witness ==
    \E t \in Slots :
        /\ Done(t) /\ threads[t].op = "program_scene_levels_sequence"
        /\ threads[t].args = <<0, 2>>
        /\ [ch \in 1..Len(rows) |-> rows[ch].zone] = <<2, 3, 2>>
        /\ Len(writes) = ProgramLead + 2 * EntryLen + 4

RECURSIVE RowWords(_, _, _, _)
\* the entries of the rows ch..Len(table) that are in zone `zone'
RowWords(table, ch, scene, zone) ==
    IF ch > Len(table) THEN <<>>
    ELSE (IF table[ch].zone = zone
          THEN EntryWords(ch, LevelForScene(table[ch], scene))
          ELSE <<>>)
         \o RowWords(table, ch + 1, scene, zone)

ProgramWords(table, scene, zone) ==
    LeadWords(zone)
    \o <<WordWith({1, 5}), AllOff>>
    \o PulseWords(scene)
    \o RowWords(table, 1, scene, zone)
    \o ExitWords

\* C6: Program Scene (scene, zone), run alone, is one thread that writes in
\* this order: exit programming mode, the zone programming of `zone',
\* programming mode, double press {1,5}, the scene digit, per matching row
\* double press {2,6}, channel digits, double press {3,7}, level digits, and
\* exit programming mode; its first and its last energized relay is relay 8
\* with the guard relays 0 and 9.
C6_ProgramOrder ==
    \A t \in Slots :
        (Alive(t) /\ threads[t].op = "program_scene_levels_sequence") =>
            LET words == ProgramWords(rows, threads[t].args[1], threads[t].args[2]) IN
            /\ IsPrefix(writes, words)
            /\ \A u \in Slots \ {t} : threads[u].st # "run"
            /\ Len(writes) >= 2 => writes[2] = WordWith({0, 8, 9})
            /\ Done(t) => /\ writes = words
                          /\ writes[Len(writes) - 2] = WordWith({0, 8, 9})
                          /\ \A k \in 1..Len(writes) :
                                 (k < 2 \/ k > Len(writes) - 2)
                                     => writes[k] \in {WordWith({0, 9}), AllOff}

C6_Witness ==
    \E t \in Slots :
        /\ Done(t) /\ threads[t].op = "program_scene_levels_sequence"
        /\ threads[t].args = <<9, 5>>
        /\ [ch \in 1..Len(rows) |-> rows[ch].zone] = <<5, 1, 5>>
        /\ writes = ProgramWords(rows, 9, 5)

\* the allocation digit of the claim for a row
AllocationDigit(row, zone) == IF row.zone = zone THEN 1 ELSE 0

RECURSIVE AllocRowWords(_, _, _)
AllocRowWords(table, ch, zone) ==
    IF ch > Len(table) THEN <<>>
    ELSE TwoDigitWords(ch) \o PulseWords(AllocationDigit(table[ch], zone))
         \o AllocRowWords(table, ch + 1, zone)

AllocateWords(table, zone) ==
    LeadWords(zone) \o AllocRowWords(table, 1, zone) \o ExitWords

\* the allocation digits a recording shows: the relay of the third pulse of
\* each row
AllocationDigitsIn(ws, n) ==
    [ch \in 1..n |-> IF ws[Len(LeadWords(0)) + 6 * ch - 1] = WordWith({1}) THEN 1
                     ELSE IF ws[Len(LeadWords(0)) + 6 * ch - 1] = WordWith({0}) THEN 0
                     ELSE 2]

\* C7: Allocate to Zones (zone), run alone, writes exit programming mode, the
\* zone programming of `zone', programming mode, then for every row in table
\* order the two channel digits and one pulse of the allocation digit (relay 1
\* if the zone of the row is the target zone, relay 0 otherwise), then exit
\* programming mode.
C7_AllocateOrder ==
    \A t \in Slots :
        (Alive(t) /\ threads[t].op = "allocate_to_zones_sequence") =>
            LET words == AllocateWords(rows, threads[t].args[1]) IN
            /\ IsPrefix(writes, words)
            /\ Done(t) =>
                   /\ writes = words
                   /\ AllocationDigitsIn(writes, Len(rows))
                          = [ch \in 1..Len(rows) |->
                                 IF rows[ch].zone = threads[t].args[1] THEN 1 ELSE 0]

C7_Witness ==
    \E t \in Slots :
        /\ Done(t) /\ threads[t].op = "allocate_to_zones_sequence"
        /\ threads[t].args = <<5>>
        /\ [ch \in 1..Len(rows) |-> rows[ch].zone] = <<5, 1, 5>>
        /\ AllocationDigitsIn(writes, 3) = <<1, 0, 1>>

(***************************************************************************)
(* The three composites requested at any time after the hardware           *)
(* initialisation, also while another one runs: the simulated backend, one *)
(* channel, no log widget and no recording.                                *)
(***************************************************************************)
Composites ==
    {"program_scene_levels_sequence", "allocate_to_zones_sequence",
     "_play_scene_level_sequence"}

FacadeInit == Constructed(TableOf(<<1>>), TRUE, FALSE, FALSE)

\* _init_hardware_thread has ended
Initialised == \A t \in Slots : Running(t) => threads[t].op # "_init_hardware_thread"

FacadeCommand ==
    \/ \E accepted \in BOOLEAN : OnProgramSceneLevels(1, 1, accepted)
    \/ \E accepted \in BOOLEAN : OnAllocateToZones(1, accepted)
    \/ PlayLevelWithLock(1, 9)

FacadeNext ==
    \/ \E t \in Slots : Enter(t)
    \/ \E t \in Slots : Write(t)
    \/ \E t \in Slots : ConfigureStep(t)
    \/ \E t \in Slots : CtorStep(t)
    \/ \E t \in Slots : ReadyStep(t)
    \/ \E t \in Slots : EnableStep(t)
    \/ \E t \in Slots : ProgramZoneStep(t)
    \/ \E t \in Slots : ReadRowsStep(t)
    \/ \E t \in Slots : AllocIterStep(t)
    \/ \E t \in Slots : WaitStepStep(t)
    \/ Initialised /\ FacadeCommand

SpecFacade == FacadeInit /\ [][FacadeNext]_vars

\* the threads that execute a composite sequence
Executing == {t \in Slots : Running(t) /\ threads[t].op \in Composites}

\* C8: in every reachable state at most one composite sequence (Program
\* Scene, Allocate to Zones or a Play) is executing.
C8_AtMostOneComposite == Cardinality(Executing) <= 1

Failed(t) == threads[t].st = "failed"

FaultInit == Constructed(TableOf(<<1, 2>>), FALSE, TRUE, TRUE)

FaultCommand ==
    \/ \E scene_digit \in SheetScenes, zone \in DialogZones, accepted \in BOOLEAN :
           OnProgramSceneLevels(scene_digit, zone, accepted)
    \/ \E zone \in DialogZones, accepted \in BOOLEAN : OnAllocateToZones(zone, accepted)
    \/ \E ch \in 1..Len(rows), idx \in 0..9 : PlayLevelWithLock(ch, idx)

FaultNext ==
    \/ \E t \in Slots : Enter(t)
    \/ \E t \in Slots : Write(t)
    \/ \E t \in Slots : Raises(t)
    \/ \E t \in Slots : LogStep(t)
    \/ \E t \in Slots : ConfigureStep(t)
    \/ \E t \in Slots : CtorStep(t)
    \/ \E t \in Slots : ReadyStep(t)
    \/ \E t \in Slots : EnableStep(t)
    \/ \E t \in Slots : ProgramZoneStep(t)
    \/ \E t \in Slots : ReadRowsStep(t)
    \/ \E t \in Slots : AllocIterStep(t)
    \/ \E t \in Slots : WaitStepStep(t)
    \/ Quiet /\ FaultCommand
    \/ (\A t \in Slots : ~Failed(t)) /\ ClearLog

SpecFault == FaultInit /\ [][FaultNext]_vars

\* a line of the log that reports an error
IsErrorLine(line) == StartsWith(line, "Error") \/ StartsWith(line, "[SIMULATION] Error")

\* C10: when a GPIO write has raised in a composite sequence, its control is
\* enabled again and the last line of the log is an error line.
C10_FailureReenables ==
    \A t \in Slots :
        (Failed(t) /\ threads[t].op \in Composites) =>
            /\ threads[t].ctl \notin disabled
            /\ log # <<>> /\ IsErrorLine(log[Len(log)])

(***************************************************************************)
(* The composites run one at a time under fair scheduling of the worker    *)
(* threads: debug mode off, every GPIO write succeeding, log widget on.    *)
(***************************************************************************)
LiveInit == \E sim \in BOOLEAN : Constructed(TableOf(<<1, 2>>), sim, TRUE, FALSE)

LiveCommand ==
    \/ \E scene_digit \in SheetScenes, zone \in DialogZones, accepted \in BOOLEAN :
           OnProgramSceneLevels(scene_digit, zone, accepted)
    \/ \E zone \in DialogZones, accepted \in BOOLEAN : OnAllocateToZones(zone, accepted)
    \/ \E ch \in 1..Len(rows), idx \in {0, 9} : PlayLevelWithLock(ch, idx)

LiveNext ==
    \/ \E t \in Slots : Enter(t)
    \/ \E t \in Slots : Write(t)
    \/ \E t \in Slots : LogStep(t)
    \/ \E t \in Slots : ConfigureStep(t)
    \/ \E t \in Slots : CtorStep(t)
    \/ \E t \in Slots : ReadyStep(t)
    \/ \E t \in Slots : EnableStep(t)
    \/ \E t \in Slots : ProgramZoneStep(t)
    \/ \E t \in Slots : ReadRowsStep(t)
    \/ \E t \in Slots : AllocIterStep(t)
    \/ \E t \in Slots : WaitStepStep(t)
    \/ Quiet /\ LiveCommand
    \/ ClearLog

\* every statement a thread can execute is eventually executed
LiveFairness ==
    \A t \in Slots :
        /\ WF_vars(Enter(t)) /\ WF_vars(Write(t)) /\ WF_vars(LogStep(t))
        /\ WF_vars(ConfigureStep(t)) /\ WF_vars(CtorStep(t)) /\ WF_vars(ReadyStep(t))
        /\ WF_vars(EnableStep(t)) /\ WF_vars(ProgramZoneStep(t))
        /\ WF_vars(ReadRowsStep(t)) /\ WF_vars(AllocIterStep(t))
        /\ WF_vars(WaitStepStep(t))

SpecLive == LiveInit /\ [][LiveNext]_vars /\ LiveFairness

\* the completion line of the composite of thread t
CompletionLine(t) ==
    IF threads[t].op = "program_scene_levels_sequence"
    THEN "=== Programming sequence complete ==="
    ELSE IF threads[t].op = "allocate_to_zones_sequence"
    THEN "=== Allocation sequence complete ==="
    ELSE (IF simulation THEN "[SIMULATION] " ELSE "")
         \o "=== COMPLETE: Play done for channel " \o ToString(threads[t].args[1])
         \o ", scene " \o ToString(threads[t].args[2]) \o " with level "
         \o (IF threads[t].args[3] < 10 THEN "0" ELSE "") \o ToString(threads[t].args[3])
         \o " ==="

\* the composite of thread t has ended: its completion line is the last line
\* of the log and its control is enabled
Completed(t) ==
    /\ Done(t) /\ threads[t].op \in Composites
    /\ threads[t].ctl \notin disabled
    /\ log # <<>> /\ log[Len(log)] = CompletionLine(t)

\* C11: with debug mode off and every GPIO write succeeding, a started
\* composite eventually ends under fair scheduling, with its completion line
\* as the last line of the log and its control enabled again.
C11_CompositeTerminates ==
    \A t \in Slots : (Running(t) /\ threads[t].op \in Composites) ~> Completed(t)

C11_Witness ==
    \E t \in Slots : Completed(t) /\ threads[t].op = "allocate_to_zones_sequence"
                     /\ threads[t].args = <<2>>

(***************************************************************************)
(* Relay toggles requested at any time, also while a composite runs: the   *)
(* simulated backend, one channel, no log widget and no recording.  A      *)
(* composite is requested when no thread runs.                             *)
(***************************************************************************)
ToggleInit == Constructed(TableOf(<<1>>), TRUE, FALSE, FALSE)

\* the relays toggled in these runs: a guard relay and a digit relay
ToggleRelays == {0, 3}

ToggleCommand ==
    \/ Idle /\ FacadeCommand
    \/ \E r \in ToggleRelays : ToggleRelay(r)

ToggleNext ==
    \/ \E t \in Slots : Enter(t)
    \/ \E t \in Slots : Write(t)
    \/ \E t \in Slots : ConfigureStep(t)
    \/ \E t \in Slots : CtorStep(t)
    \/ \E t \in Slots : ReadyStep(t)
    \/ \E t \in Slots : EnableStep(t)
    \/ \E t \in Slots : ProgramZoneStep(t)
    \/ \E t \in Slots : ReadRowsStep(t)
    \/ \E t \in Slots : AllocIterStep(t)
    \/ \E t \in Slots : WaitStepStep(t)
    \/ Initialised /\ ToggleCommand

SpecToggle == ToggleInit /\ [][ToggleNext]_vars

\* toggle_relay(r) starts its thread
ToggleStarts(r) ==
    /\ ToggleRelay(r)
    /\ \E t \in Slots : /\ ~Running(t)
                        /\ threads'[t].st = "run"
                        /\ threads'[t].op = "_toggle_relay_thread"
                        /\ threads'[t].args = <<r>>

\* C12: whenever the hardware is ready (and a thread can be started),
\* toggle_relay(i) is accepted and starts its pulse, whether or not a
\* composite sequence is executing.
C12_ToggleExempt ==
    (hardware_ready /\ FreeSlots # {}) => \A r \in ToggleRelays : ENABLED ToggleStarts(r)

\* the ON write of a toggle of relay 3 has fallen between the guardOn and the
\* guardOff write of a running composite
C12_Witness ==
    \E t \in Slots, u \in Executing :
        /\ Running(t) /\ threads[t].op = "_toggle_relay_thread"
        /\ threads[t].args = <<3>>
        /\ state_lock = 0
        /\ gpio_word = WordWith({0, 3, 9})
        /\ Cur(u).k = "clr"

(***************************************************************************)
(* Toggles and double presses on disjoint relays, requested while others   *)
(* run: the simulated backend, no log widget and no recording.             *)
(***************************************************************************)
DisjointInit == Constructed(TableOf(<<1>>), TRUE, FALSE, FALSE)

\* the relays of the operation of thread t
Owned(t) ==
    IF Running(t) /\ threads[t].op \in {"_toggle_relay_thread", "_double_press_mode_thread"}
    THEN {threads[t].args[i] : i \in 1..Len(threads[t].args)}
    ELSE {}

OwnedByRunning == UNION {Owned(t) : t \in Slots}

DisjointCommand ==
    \/ \E r \in Digits \ OwnedByRunning : ToggleRelay(r)
    \/ \E m \in QuickModes : {m[2], m[3]} \cap OwnedByRunning = {} /\ QuickMode(m)

DisjointNext ==
    \/ \E t \in Slots : Enter(t)
    \/ \E t \in Slots : Write(t)
    \/ \E t \in Slots : ConfigureStep(t)
    \/ \E t \in Slots : CtorStep(t)
    \/ \E t \in Slots : ReadyStep(t)
    \/ Initialised /\ DisjointCommand

SpecDisjoint == DisjointInit /\ [][DisjointNext]_vars

\* the relays whose owner has last cleared their bits: the owner is in its ON
\* block and has mutated the word, or has left it and not yet entered OFF
Energized ==
    UNION { IF (Cur(t).k = "clr" /\ state_lock = t) \/ (Cur(t).k = "set" /\ state_lock # t)
            THEN Owned(t) ELSE {}
            : t \in {u \in Slots : Running(u)} }

\* C13: with operations on disjoint relays running together, the relay word
\* has for every relay the value its owner last set, and the word the GPIO
\* backend holds after a write is that word: no update is lost.
C13_NoLostUpdate ==
    Initialised =>
        /\ current_state = WordWith(Energized)
        /\ state_lock = 0 => gpio_word = current_state

C13_Witness ==
    \E t \in Slots, u \in Slots :
        /\ Running(t) /\ threads[t].op = "_toggle_relay_thread" /\ threads[t].args = <<9>>
        /\ Running(u) /\ threads[u].op = "_double_press_mode_thread"
        /\ threads[u].args = <<4, 8>>
        /\ state_lock = 0
        /\ gpio_word = WordWith({4, 8, 9})

(***************************************************************************)
(* The real backend, whose constructor, configure and write can raise,     *)
(* with a log widget: the hardware initialisation, then one relay command. *)
(***************************************************************************)
InitFaultInit == Constructed(TableOf(<<1>>), FALSE, TRUE, FALSE)

RelayOps == {"_toggle_relay_thread", "_double_press_mode_thread"}

\* no relay command has been given yet
NoneGiven == \A t \in Slots : threads[t].op \notin RelayOps

InitFaultCommand ==
    \/ \E r \in Digits : ToggleRelay(r)
    \/ \E m \in QuickModes : QuickMode(m)

InitFaultNext ==
    \/ \E t \in Slots : Enter(t)
    \/ \E t \in Slots : Write(t)
    \/ \E t \in Slots : Raises(t)
    \/ \E t \in Slots : LogStep(t)
    \/ \E t \in Slots : ConfigureStep(t)
    \/ \E t \in Slots : CtorStep(t)
    \/ \E t \in Slots : ReadyStep(t)
    \/ (Idle /\ NoneGiven) /\ InitFaultCommand

SpecInitFault == InitFaultInit /\ [][InitFaultNext]_vars

\* the except block of _init_hardware_thread has reported the failure
FailureReported ==
    \E k \in 1..Len(log) :
        log[k] = "[SIMULATION] Hardware not available, running in simulation mode"

\* C14: after a failed initialisation of the real backend the failure is in
\* the log, hardware_ready is true, and a relay command given afterwards makes
\* its writes against a backend that accepts them: its thread has a backend
\* to write to and does not end in an exception.
C14_InitFailureFallback ==
    FailureReported =>
        /\ hardware_ready
        /\ \A t \in Slots :
               threads[t].op \in RelayOps =>
                   /\ ~Failed(t)
                   /\ state_lock = t => has_gpio

(***************************************************************************)
(* The debug gate, one composite at a time: debug mode is switched while   *)
(* nothing runs, Next Step is pressed while a sequence waits for it.       *)
(***************************************************************************)
DebugInit == Constructed(TableOf(<<1>>), TRUE, TRUE, TRUE)

\* thread t is blocked in wait_for_next_step
Suspended(t) == At(t, {"event_wait"}) /\ ~step_ready

DebugNext ==
    \/ \E t \in Slots : Enter(t)
    \/ \E t \in Slots : Write(t)
    \/ \E t \in Slots : LogStep(t)
    \/ \E t \in Slots : ConfigureStep(t)
    \/ \E t \in Slots : CtorStep(t)
    \/ \E t \in Slots : ReadyStep(t)
    \/ \E t \in Slots : EnableStep(t)
    \/ \E t \in Slots : ProgramZoneStep(t)
    \/ \E t \in Slots : ReadRowsStep(t)
    \/ \E t \in Slots : AllocIterStep(t)
    \/ \E t \in Slots : WaitStepStep(t)
    \/ \E t \in Slots : EventClearStep(t)
    \/ \E t \in Slots : EventWaitStep(t)
    \/ Quiet /\ FacadeCommand
    \/ Quiet /\ ToggleDebugMode
    \/ (\E t \in Slots : Suspended(t)) /\ OnNextStep
    \/ ClearLog

SpecDebug == DebugInit /\ [][DebugNext]_vars

\* the advance signals given since the log was cleared
Advances == Cardinality({k \in 1..Len(log) : log[k] = "Proceeding to next step..."})

\* C17: with debug mode on for the whole run, a composite is suspended after
\* every step until Next Step is pressed: while no advance signal has been
\* given, no composite sequence gets past its steps to its end.
C17_DebugSuspends ==
    (debug_mode /\ Advances = 0) =>
        \A t \in Slots :
            threads[t].op \in Composites => ~Done(t)

(***************************************************************************)
(* The debug gate with the two sequences of the levels sheet started at    *)
(* will in debug mode: both wait on the one step_ready event.              *)
(***************************************************************************)
GateInit == Constructed(TableOf(<<1>>), TRUE, FALSE, FALSE)

\* the sequences are started in debug mode, and the mode is switched while
\* none runs
GateCommand ==
    \/ debug_mode /\ \E accepted \in BOOLEAN : OnProgramSceneLevels(1, 1, accepted)
    \/ debug_mode /\ \E accepted \in BOOLEAN : OnAllocateToZones(1, accepted)
    \/ Idle /\ ToggleDebugMode
    \/ OnNextStep

GateNext ==
    \/ \E t \in Slots : Enter(t)
    \/ \E t \in Slots : Write(t)
    \/ \E t \in Slots : ConfigureStep(t)
    \/ \E t \in Slots : CtorStep(t)
    \/ \E t \in Slots : ReadyStep(t)
    \/ \E t \in Slots : EnableStep(t)
    \/ \E t \in Slots : ProgramZoneStep(t)
    \/ \E t \in Slots : ReadRowsStep(t)
    \/ \E t \in Slots : AllocIterStep(t)
    \/ \E t \in Slots : WaitStepStep(t)
    \/ \E t \in Slots : EventClearStep(t)
    \/ \E t \in Slots : EventWaitStep(t)
    \/ Initialised /\ GateCommand

SpecGate == GateInit /\ [][GateNext]_vars

\* C18: at most one sequence is blocked in wait_for_next_step at a time.
C18_OneSuspended ==
    Cardinality({t \in Slots : Suspended(t)}) <= 1

(***************************************************************************)
(* Edits of the table while a sequence of the levels sheet runs: the run   *)
(* is started on StartTable, the zone of a row and its Scene 1 level are   *)
(* edited while the sequence is running.                                   *)
(***************************************************************************)
StartTable == TableOf(<<1, 2>>)

EditInit == Constructed(StartTable, TRUE, FALSE, TRUE)

EditLevels == {SceneDefaults[1], EditedScenes(2)[1]}

EditCommand ==
    \/ \E zone \in 1..MaxZone, accepted \in BOOLEAN :
           OnProgramSceneLevels(1, zone, accepted)
    \/ \E zone \in 1..MaxZone, accepted \in BOOLEAN : OnAllocateToZones(zone, accepted)

Edit ==
    \/ \E ch \in 1..Len(rows), z \in 1..MaxZone : EditZone(ch, z)
    \/ \E ch \in 1..Len(rows), level \in EditLevels : EditLevel(ch, SceneIndex(1), level)

EditNext ==
    \/ \E t \in Slots : Enter(t)
    \/ \E t \in Slots : Write(t)
    \/ \E t \in Slots : ConfigureStep(t)
    \/ \E t \in Slots : CtorStep(t)
    \/ \E t \in Slots : ReadyStep(t)
    \/ \E t \in Slots : EnableStep(t)
    \/ \E t \in Slots : ProgramZoneStep(t)
    \/ \E t \in Slots : ReadRowsStep(t)
    \/ \E t \in Slots : AllocIterStep(t)
    \/ \E t \in Slots : WaitStepStep(t)
    \/ (Quiet /\ rows = StartTable) /\ EditCommand
    \/ Executing # {} /\ Edit
    \/ ClearLog

SpecEdit == EditInit /\ [][EditNext]_vars

\* C19: what a run of Program Scene or of Allocate to Zones emits is fixed by
\* the table at the moment the run was started (StartTable): the edits made
\* while it runs change none of its writes.
C19_SnapshotAtStart ==
    \A t \in Slots :
        /\ (Alive(t) /\ threads[t].op = "program_scene_levels_sequence") =>
               LET words == ProgramWords(StartTable, threads[t].args[1], threads[t].args[2]) IN
               /\ IsPrefix(writes, words)
               /\ Done(t) => writes = words
        /\ (Alive(t) /\ threads[t].op = "allocate_to_zones_sequence") =>
               LET words == AllocateWords(StartTable, threads[t].args[1]) IN
               /\ IsPrefix(writes, words)
               /\ Done(t) => writes = words

(***************************************************************************)
(* The log with its queue: worker threads post their lines, the event loop *)
(* of the GUI thread appends them, the GUI thread logs and clears          *)
(* directly.  The real backend, which does not fail here.                  *)
(***************************************************************************)
LogInit == Constructed(TableOf(<<1>>), FALSE, TRUE, FALSE)

\* the lines a sequence of statements logs, in order
RECURSIVE LinesOf(_)
LinesOf(prog) ==
    IF prog = <<>> THEN <<>>
    ELSE (IF Head(prog).k = "log" THEN <<Head(prog).s>> ELSE <<>>) \o LinesOf(Tail(prog))

Range(seq) == {seq[k] : k \in 1..Len(seq)}

\* the statements thread t was started with
BodyOf(t) ==
    IF threads[t].op = "_init_hardware_thread" THEN InitHardwareThread
    ELSE ToggleRelayThread(threads[t].args[1])

\* relay r is toggled when none of the lines of an earlier toggle of r is
\* left and no other thread record is a toggle of r
Fresh(r) ==
    /\ FreeSlots # {}
    /\ Range(LinesOf(ToggleRelayThread(r))) \cap (Range(log) \cup Range(queue)) = {}
    /\ \A t \in Slots \ {FirstFree} : threads[t].args # <<r>>

LogCommand ==
    \/ \E r \in ToggleRelays : Fresh(r) /\ ToggleRelay(r)
    \/ "Reset canceled." \notin Range(log) /\ ResetMode(FALSE)
    \/ log # <<>> /\ ClearGlobalLog

LogNext ==
    \/ \E t \in Slots : Enter(t)
    \/ \E t \in Slots : Write(t)
    \/ \E t \in Slots : PostStep(t)
    \/ \E t \in Slots : ConfigureStep(t)
    \/ \E t \in Slots : CtorStep(t)
    \/ \E t \in Slots : ReadyStep(t)
    \/ Deliver
    \/ LogCommand

SpecLog == LogInit /\ [][LogNext]_vars

\* the lines thread t has logged so far
EmittedBy(t) ==
    SubSeq(LinesOf(BodyOf(t)), 1,
           Len(LinesOf(BodyOf(t))) - Len(LinesOf(threads[t].prog)))

IsSuffix(p, q) == Len(p) <= Len(q) /\ SubSeq(q, Len(q) - Len(p) + 1, Len(q)) = p

\* the lines of thread t in the widget, followed by those still queued
ShownOf(t) ==
    LET Mine(line) == line \in Range(LinesOf(BodyOf(t))) IN
    SelectSeq(log, Mine) \o SelectSeq(queue, Mine)

\* C20: the lines one thread logs reach the widget in the order the thread
\* logged them (what the widget and the queue hold of a thread is the tail of
\* what it logged, in that order), and a step that is not a clear removes,
\* reorders and edits no line of the widget: it leaves the log a prefix of
\* the new log.
C20_LogOrdered ==
    /\ [](\A t \in Slots : Alive(t) => IsSuffix(ShownOf(t), EmittedBy(t)))
    /\ [][IsPrefix(log, log') \/ ClearGlobalLog]_vars

C20_Witness ==
    /\ \E i, j, k \in 1..Len(log) :
           /\ i < j /\ j < k
           /\ log[i] = "R3 ON" /\ log[j] = "R0 ON" /\ log[k] = "R3 OFF"
    /\ queue # <<>>

(***************************************************************************)
(* Start-up and shutdown: the initialisation, relay toggles one at a time, *)
(* and close_hardware, on a backend that works (real or simulated).        *)
(***************************************************************************)
CloseInit == \E sim \in BOOLEAN : Constructed(TableOf(<<1>>), sim, TRUE, TRUE)

\* the real link is not used after it was closed
CloseCommand ==
    \/ (simulation \/ connected) /\ \E r \in Digits : ToggleRelay(r)
    \/ (simulation \/ connected) /\ \E m \in QuickModes : QuickMode(m)
    \/ hardware_ready /\ CloseHardware

CloseNext ==
    \/ \E t \in Slots : Enter(t)
    \/ \E t \in Slots : Write(t)
    \/ \E t \in Slots : LogStep(t)
    \/ \E t \in Slots : ConfigureStep(t)
    \/ \E t \in Slots : CtorStep(t)
    \/ \E t \in Slots : ReadyStep(t)
    \/ \E t \in Slots : CloseTestStep(t)
    \/ \E t \in Slots : CloseStep(t)
    \/ Quiet /\ CloseCommand
    \/ ClearLog

SpecClose == CloseInit /\ [][CloseNext]_vars

\* C21: once the initialisation has succeeded the word is 0xFFFF and has been
\* written to the backend; and a close_hardware called with the hardware
\* reported ready, on the real or the simulated backend, has set the word to
\* 0xFFFF and written it when it returns.
C21_AllOffAtStartAndShutdown ==
    \A t \in Slots :
        /\ (Done(t) /\ threads[t].op = "_init_hardware_thread") =>
               /\ current_state = AllOff /\ gpio_word = AllOff
               /\ writes = <<AllOff>>
        /\ (Done(t) /\ threads[t].op = "close_hardware") =>
               /\ current_state = AllOff /\ gpio_word = AllOff
               /\ writes = <<AllOff>>
               /\ ~connected

(***************************************************************************)
(* The table and its channel count: the user types a count and presses     *)
(* Generate Table, on tables of up to MaxRows edited rows.                  *)
(***************************************************************************)
TableInit == \E table \in Tables : Constructed(table, TRUE, FALSE, TRUE)

\* the counts typed: up to one row more than the tables of TableInit have
CountTexts ==
    {"", "abc", "1.5", "0", "-1", " 1 "} \cup {ToString(n) : n \in 1..(MaxRows + 1)}

TableNext ==
    \/ \E t \in Slots : Enter(t)
    \/ \E t \in Slots : Write(t)
    \/ \E t \in Slots : ConfigureStep(t)
    \/ \E t \in Slots : CtorStep(t)
    \/ \E t \in Slots : ReadyStep(t)
    \/ \E text \in CountTexts : TypeNumChannels(text)
    \/ OnGenerateTable

SpecTable == TableInit /\ [][TableNext]_vars

\* the count typed is no numeral or is below 1
InvalidCount(text) == ~ParseInt(text).ok \/ ParseInt(text).value < 1

\* C22: on_generate_table with a non-numeric channel count or a count below 1
\* reports an input error, leaves the rows and their data as they are, and
\* starts no thread and makes no GPIO write.
C22_InvalidCountRejected ==
    [][(OnGenerateTable /\ InvalidCount(header.num_channels)) =>
          /\ dialog' # <<>> /\ dialog'[1] = "Input Error"
          /\ rows' = rows
          /\ threads' = threads
          /\ writes' = writes /\ gpio_word' = gpio_word
          /\ current_state' = current_state]_vars

C22_Witness ==
    /\ header.num_channels = "0"
    /\ dialog = <<"Input Error", "Number of channels must be positive">>
    /\ Len(rows) = MaxRows /\ rows[MaxRows].name = "Lamp " \o ToString(MaxRows)

\* C26: rebuild_table from N to M channels leaves M rows; the rows up to
\* min(N, M) keep zone, dim ref, name, type and the ten levels, the rows
\* N+1..M have the defaults (zone 1, empty dim ref and name, type Dimmed,
\* levels 90,70,50,30,99,99,99,99,99,00).
C26_RebuildKeepsRows ==
    [][(OnGenerateTable /\ ~InvalidCount(header.num_channels)) =>
          LET N == Len(rows)
              M == ParseInt(header.num_channels).value IN
          /\ Len(rows') = M
          /\ \A k \in 1..M :
                 rows'[k] = IF k <= N THEN rows[k]
                            ELSE [zone |-> 1, dim_ref |-> "", name |-> "",
                                  type |-> "Dimmed",
                                  scenes |-> <<90, 70, 50, 30, 99, 99, 99, 99, 99, 0>>]]_vars

\* a table grown by one row over an edited table of MaxRows rows
C26_Witness ==
    /\ Len(rows) = MaxRows + 1
    /\ rows[MaxRows + 1] = DefaultRow
    /\ \A k \in 1..MaxRows : k % 2 = 0 => rows[k].name = "Lamp " \o ToString(k)
    /\ dialog = <<>>

(***************************************************************************)
(* Confirmations: Reset, Program Scene and Allocate to Zones are accepted  *)
(* while nothing else runs and declined at any time.                       *)
(***************************************************************************)
DeclineInit == \E sim \in BOOLEAN : Constructed(TableOf(<<1>>), sim, TRUE, TRUE)

Accepted ==
    \/ ResetMode(TRUE)
    \/ OnProgramSceneLevels(1, 1, TRUE)
    \/ OnAllocateToZones(1, TRUE)

\* the user cancels a selection dialog or answers No
Declined ==
    \/ ResetMode(FALSE)
    \/ \E scene_digit \in SheetScenes, zone \in DialogZones :
           OnProgramSceneLevels(scene_digit, zone, FALSE)
    \/ \E zone \in DialogZones : OnAllocateToZones(zone, FALSE)

DeclineNext ==
    \/ \E t \in Slots : Enter(t)
    \/ \E t \in Slots : Write(t)
    \/ \E t \in Slots : LogStep(t)
    \/ \E t \in Slots : ConfigureStep(t)
    \/ \E t \in Slots : CtorStep(t)
    \/ \E t \in Slots : ReadyStep(t)
    \/ \E t \in Slots : EnableStep(t)
    \/ \E t \in Slots : ProgramZoneStep(t)
    \/ \E t \in Slots : ReadRowsStep(t)
    \/ \E t \in Slots : AllocIterStep(t)
    \/ \E t \in Slots : WaitStepStep(t)
    \/ Quiet /\ Accepted
    \/ Initialised /\ Declined /\ "Reset canceled." \notin Range(log)
                   /\ "[SIMULATION] Reset canceled." \notin Range(log)
    \/ ClearLog

SpecDecline == DeclineInit /\ [][DeclineNext]_vars

\* C23: a declined Reset, Program Scene or Allocate to Zones starts no
\* thread, makes no GPIO write, leaves the relay word and the enabled controls
\* as they are, and appends at most one line to the log.
C23_DeclineIsNoOp ==
    [][Declined =>
          /\ threads' = threads
          /\ writes' = writes /\ gpio_word' = gpio_word
          /\ current_state' = current_state
          /\ disabled' = disabled
          /\ log' = log \/ \E k \in 1..Len(log') : log' = Append(log, log'[k])]_vars

\* a Reset declined while an accepted sequence runs
C23_Witness ==
    /\ \E k \in 1..Len(log) : log[k] = "Reset canceled."
    /\ \E t \in Slots : Running(t) /\ threads[t].op = "allocate_to_zones_sequence"
    /\ Len(writes) > 0

(***************************************************************************)
(* The CSV file of the levels sheet: Save CSV and Import CSV over tables   *)
(* and files of a few lines.                                               *)
(***************************************************************************)
\* names and dim refs of the rows: printable texts without a comma
CsvNames == {"", "Lamp", " Lamp"}

CsvDimRefs == {"", "D 1"}

CsvRows ==
    [zone : {1}, dim_ref : CsvDimRefs, name : CsvNames, type : {"Switched"},
     scenes : {EditedScenes(1)}]

CsvTables == UNION { [1..n -> CsvRows] : n \in 1..MaxRows }

CsvHeaders == {HeaderOf("Villa", "2024-05-01", 1), HeaderOf("", "", 1)}

\* a data line of a file with the given channel, name and first level
CsvLine(channel, name, level) ==
    Join(<<channel, "1", "D1", name, "Dimmed", level>>
         \o [j \in 1..(Len(SceneLabels) - 1) |-> "50"], ",")

CsvSiteLine == Join(<<"Site Name:", "Villa">> \o Empties(CsvFields - 2), ",")

CsvDateLine == Join(<<"Date:", "2024-05-01">> \o Empties(CsvFields - 2), ",")

CsvHeadLine == Join(<<"Channel", "Zone", "Dim Ref", "Name", "Type">> \o SceneLabels, ",")

\* the files chosen in the dialog, as sequences of lines
CsvFileLines ==
    { <<>>,
      <<CsvSiteLine, CsvDateLine, CsvHeadLine>>,
      <<CsvSiteLine, CsvDateLine, CsvHeadLine, CsvLine("1", "Hall", "10")>>,
      <<CsvSiteLine, CsvDateLine, CsvHeadLine, CsvLine("1", "Hall", "10"), "2,1,Stair",
        CsvLine("3", "Attic", "30")>>,
      <<CsvSiteLine, CsvDateLine, CsvHeadLine, "2,1,Stair">>,
      <<CsvSiteLine, CsvDateLine, "", CsvHeadLine, CsvLine("1", "Hall", "10")>>,
      <<CsvSiteLine, "", CsvDateLine, CsvHeadLine>>,
      <<"Site Name", CsvDateLine, CsvHeadLine, CsvLine("1", "Hall", "10")>>,
      <<CsvSiteLine, CsvDateLine, CsvHeadLine, CsvLine("1", "Hall", "10"),
        CsvLine("2", "Stair", "ab")>> }

CsvFiles == { Join(lines, "\n") : lines \in CsvFileLines }

CsvInit ==
    \E table \in CsvTables, hdr \in CsvHeaders, text \in CsvFiles :
        ConstructedWith(table, TRUE, TRUE, FALSE, hdr, text)

CsvNext ==
    \/ \E t \in Slots : Enter(t)
    \/ \E t \in Slots : Write(t)
    \/ \E t \in Slots : LogStep(t)
    \/ \E t \in Slots : ConfigureStep(t)
    \/ \E t \in Slots : CtorStep(t)
    \/ \E t \in Slots : ReadyStep(t)
    \/ Quiet /\ OnSaveCsv
    \/ Quiet /\ OnImportCsv
    \/ ClearLog

SpecCsv == CsvInit /\ [][CsvNext]_vars

\* a text of printable characters without a comma
PlainText(text) ==
    \A i \in 1..Len(text) : CharAt(text, i) \notin {",", "\n", "\t"}

\* C24: for a table of 1 to 99 rows whose names and dim refs are printable
\* texts without commas, parse_csv of generate_csv_data gives the site name, the
\* date and, row by row in order, the channel, zone, dim ref, name, type and ten
\* two-digit scene values of the table.
C24_RoundTrip ==
    (/\ Len(rows) \in 1..99
     /\ \A k \in 1..Len(rows) : PlainText(rows[k].name) /\ PlainText(rows[k].dim_ref))
    => LET parsed == ParseCsv(GenerateCsvData(header, rows))
           table_data == ReadTableData(rows)
       IN /\ parsed.ok
          /\ parsed.siteName = header.site_name
          /\ parsed.siteDate = header.site_date
          /\ Len(parsed.rows) = Len(rows)
          /\ \A k \in 1..Len(rows) :
                parsed.rows[k] = [table_data[k] EXCEPT !.channel = ToString(k)]

\* C25: parse_csv fails on a text of fewer than 4 lines; on any other text it
\* returns one entry, in file order, for exactly the lines from line 4 on that
\* have at least 15 comma-separated fields.
C25_EnoughLinesAndFields ==
    LET lines == SplitLines(file)
        parsed == ParseCsv(file)
        data == SelectSeq(SubSeq(lines, 4, Len(lines)),
                          LAMBDA line : Len(Split(line, ",")) >= 15)
    IN IF Len(lines) < 4 THEN ~parsed.ok
       ELSE /\ parsed.ok
            /\ Len(parsed.rows) = Len(data)
            /\ \A i \in 1..Len(data) :
                  LET cells == Cells(data[i]) IN
                  parsed.rows[i] = [channel |-> cells[1], zone |-> cells[2],
                                    dimRef |-> cells[3], name |-> cells[4],
                                    type |-> cells[5], scenes |-> SubSeq(cells, 6, 15)]

(***************************************************************************)
(* The simulated backend.                                                  *)
(***************************************************************************)
\* the relays 0..9 whose bit differs between the words old and w
DifferingRelays(old, w) ==
    {i \in 0..9 : (old \div 2^i) % 2 # (w \div 2^i) % 2}

\* one line for each differing relay, in rising order of the relays
DiffLines(old, w) ==
    LET changed == DifferingRelays(old, w)
        Nth(k) == CHOOSE i \in changed : Cardinality({j \in changed : j < i}) = k - 1
    IN [k \in 1..Cardinality(changed) |->
           "[SIMULATION] Relay R" \o ToString(Nth(k)) \o " -> "
           \o (IF (w \div 2^Nth(k)) % 2 = 0 THEN "ON" ELSE "OFF")]

\* C27: a write of the word w to the simulated backend is accepted, logs one
\* line for exactly the relays 0..9 whose bit differs between the word written
\* before (0xFFFF at first) and w, ON for a new bit 0 and OFF for a new bit 1,
\* and leaves w as the word written before.
C27_SimulatedWriteDiffs ==
    [][\A t \in Slots :
          (simulation /\ Running(t) /\ state_lock = t /\ has_gpio)
          => /\ ENABLED Write(t)
             /\ Write(t) => /\ gpio_word' = current_state
                            /\ log' = log \o DiffLines(gpio_word, current_state)]_vars

\* a relay was reported ON and, by a later write, OFF
C27_Witness ==
    /\ simulation
    /\ gpio_word = AllOff
    /\ \E i \in 0..9, j, k \in 1..Len(log) :
          /\ j < k
          /\ log[j] = "[SIMULATION] Relay R" \o ToString(i) \o " -> ON"
          /\ log[k] = "[SIMULATION] Relay R" \o ToString(i) \o " -> OFF"

(***************************************************************************)
(* The lock: toggles, a double press, zone programming with the debug gate *)
(* and the shutdown beside each other, on either backend.                  *)
(***************************************************************************)
LockInit == \E sim \in BOOLEAN : Constructed(TableOf(<<1>>), sim, FALSE, FALSE)

LockCommand ==
    \/ ToggleRelay(1)
    \/ QuickMode(<<"Quick Scene", 1, 5>>)
    \/ debug_mode /\ OnAllocateToZones(1, TRUE)
    \/ Idle /\ ~debug_mode /\ ToggleDebugMode
    \/ OnNextStep
    \/ hardware_ready /\ CloseHardware

LockNext ==
    \/ \E t \in Slots : Enter(t)
    \/ \E t \in Slots : Write(t)
    \/ \E t \in Slots : Raises(t)
    \/ \E t \in Slots : ConfigureStep(t)
    \/ \E t \in Slots : CtorStep(t)
    \/ \E t \in Slots : ReadyStep(t)
    \/ \E t \in Slots : EnableStep(t)
    \/ \E t \in Slots : ProgramZoneStep(t)
    \/ \E t \in Slots : AllocIterStep(t)
    \/ \E t \in Slots : WaitStepStep(t)
    \/ \E t \in Slots : EventClearStep(t)
    \/ \E t \in Slots : EventWaitStep(t)
    \/ \E t \in Slots : CloseTestStep(t)
    \/ \E t \in Slots : CloseStep(t)
    \/ Initialised /\ LockCommand

SpecLock == LockInit /\ [][LockNext]_vars

\* the holder of the lock is at one of its `with self.state_lock' blocks: not
\* at a sleep, not at the debug checkpoint, not ended
HolderInSection ==
    \A t \in Slots :
        state_lock = t => Running(t) /\ Cur(t).k \in {"clr", "set", "assign"}

\* C28: the relay word is changed and written only by a thread that holds
\* state_lock, a critical section is one change of the word and then its write
\* (nothing else, and no change by anyone while the lock is held), and no
\* thread holds the lock at a sleep or at the debug checkpoint.
C28_LockDiscipline ==
    /\ []HolderInSection
    /\ [][/\ current_state' # current_state => state_lock = 0 /\ state_lock' \in Slots
          /\ gpio_word' # gpio_word
                => state_lock \in Slots /\ gpio_word' = current_state /\ state_lock' = 0
          /\ state_lock \in Slots
                => /\ current_state' = current_state
                   /\ state_lock' \in {state_lock, 0}
                   /\ threads'[state_lock] # threads[state_lock] => state_lock' = 0]_vars

\* the shutdown has written the word while a zone programming waits at the
\* debug checkpoint
C28_Witness ==
    /\ state_lock = 0
    /\ gpio_word = AllOff
    /\ ~connected /\ ~simulation /\ hardware_ready
    /\ \E t \in Slots : Running(t) /\ Cur(t).k = "event_wait"
    /\ \E t \in Slots : threads[t].op = "close_hardware" /\ threads[t].st = "done"

(***************************************************************************)
(* Gui.py: Play of the Tkinter front-end.  The steps of the sequence that  *)
(* are calls of exit_programming_mode, programming_mode and scene_mode     *)
(* start a thread each; the digit presses run in the thread of the         *)
(* sequence.                                                               *)
(***************************************************************************)
\* the calls of _play_scene_level_sequence that start a thread
GuiPlayStarts ==
    <<"exit_programming_mode", "programming_mode", "scene_mode", "exit_programming_mode">>

\* the thread of the sequence and the threads it starts
GuiSlots == 1..(Len(GuiPlayStarts) + 1)

\* rc.exit_programming_mode(), rc.programming_mode(), rc.scene_mode(scene_digit)
GuiStart(target, scene_digit) == Stmt("start", scene_digit, 0, target, NoCtl)

\* Gui.py _init_hardware_thread: the try block and the except block
GuiInitHardwareThread ==
    << Ctor, Configure, Assign(AllOff), Ready, Log("Hardware initialized. All relays OFF.") >>

GuiInitHardwareExcept == << Log("Error: e") >>

\* Gui.py _single_press_mode_thread: every press is under the guard
GuiSinglePressModeThread(mode_name, relay_key) ==
    << Log(mode_name \o ": Start"),
       Clr(GuardMask),
       Log(mode_name \o ": R0 & R9 held"),
       Sleep(300),
       Log(mode_name \o ": " \o R(relay_key) \o " ON"),
       Clr(PinMask(relay_key)),
       Hold,
       Set(PinMask(relay_key)),
       Log(mode_name \o ": " \o R(relay_key) \o " OFF"),
       Sleep(100),
       Set(GuardMask),
       Log(mode_name \o ": End") >>

\* one pulse of the loop of Gui.py _programming_mode_thread
GuiProgPulse(relay) ==
    << Log("Prog Mode: " \o R(relay) \o " ON"),
       Clr(PinMask(relay)),
       Hold,
       Set(PinMask(relay)),
       Log("Prog Mode: " \o R(relay) \o " OFF"),
       Sleep(100) >>

\* Gui.py _programming_mode_thread
GuiProgrammingModeThread ==
    << Log("Prog Mode: Start"), Clr(GuardMask), Log("Prog Mode: R0 & R9 held"), Sleep(300) >>
    \o GuiProgPulse(2) \o GuiProgPulse(1) \o GuiProgPulse(2) \o GuiProgPulse(1)
    \o << Set(GuardMask), Log("Prog Mode: End") >>

\* Gui.py _play_scene_level_sequence
GuiPlaySceneLevelSequence(channel, scene_digit, level_value, callback) ==
    LET ch_str == Zfill2(channel)
        lvl_str == Zfill2(level_value)
    IN << GuiStart(GuiPlayStarts[1], scene_digit), Sleep(800),
          GuiStart(GuiPlayStarts[2], scene_digit), Sleep(800),
          GuiStart(GuiPlayStarts[3], scene_digit), Sleep(800),
          Log("Channel digits: " \o DigitsText(ch_str)) >>
       \o GuiSinglePressModeThread("Quick Circuit Digit", ch_str[1]) \o <<Sleep(500)>>
       \o GuiSinglePressModeThread("Quick Circuit Digit", ch_str[2]) \o <<Sleep(500)>>
       \o << Log("Level digits: " \o DigitsText(lvl_str)) >>
       \o GuiSinglePressModeThread("Quick Level Digit", lvl_str[1]) \o <<Sleep(500)>>
       \o GuiSinglePressModeThread("Quick Level Digit", lvl_str[2]) \o <<Sleep(500)>>
       \o << GuiStart(GuiPlayStarts[4], scene_digit),
             Log("Play done for ch " \o ToString(channel) \o ", scene "
                 \o ToString(scene_digit)),
             Enable(callback) >>

\* the thread function and the body that a call of the sequence starts
GuiTargetOp(stmt) ==
    IF stmt.s = "programming_mode" THEN "_programming_mode_thread"
    ELSE "_single_press_mode_thread"

GuiTargetBody(stmt) ==
    CASE stmt.s = "exit_programming_mode" -> GuiSinglePressModeThread("Exit Prog Mode", 8)
      [] stmt.s = "programming_mode" -> GuiProgrammingModeThread
      [] OTHER -> GuiSinglePressModeThread("Scene Mode (" \o ToString(stmt.a) \o ")", stmt.a)

GuiFreeSlots(t) == {u \in GuiSlots \ {t} : ~Running(u)}

\* exit_programming_mode, programming_mode, scene_mode called by thread t: the
\* warning if the hardware is not ready, else threading.Thread(...).start()
GuiStartStep(t) ==
    /\ t \in GuiSlots
    /\ At(t, {"start"})
    /\ LET rest == Settle(Tail(threads[t].prog))
           caller == [threads[t] EXCEPT !.prog = rest,
                                        !.st = IF rest = <<>> THEN "done" ELSE "run"]
       IN IF hardware_ready
          THEN /\ GuiFreeSlots(t) # {}
               /\ LET u == CHOOSE f \in GuiFreeSlots(t) : \A g \in GuiFreeSlots(t) : f <= g
                  IN threads' = [threads EXCEPT
                                   ![t] = caller,
                                   ![u] = [st |-> "run", op |-> GuiTargetOp(Cur(t)),
                                           args |-> <<Cur(t).s>>, ctl |-> NoCtl,
                                           prog |-> Settle(GuiTargetBody(Cur(t))),
                                           handler |-> <<>>]]
               /\ dialog' = dialog
          ELSE /\ threads' = [threads EXCEPT ![t] = caller]
               /\ dialog' = <<"Not Ready", "Hardware not ready.">>
    /\ UNCHANGED <<current_state, state_lock, hardware_ready, simulation, has_gpio,
                   gpio_word, disabled, rows, debug_mode, step_ready, widget, log, queue,
                   recording, writes, connected, header, file>>

\* ChannelConfigPage.play_level_with_lock and RelayControlApp.play_scene_level
GuiPlayLevelWithLock(ch, idx) ==
    /\ ch \in 1..Len(rows)
    /\ idx \in 0..9
    /\ PButton(ch, idx) \notin disabled
    /\ disabled' = disabled \cup {PButton(ch, idx)}
    /\ Emit(<< "Play ch " \o ToString(ch) \o ", scene " \o ToString(SceneDigitOf(idx))
               \o " = " \o Fmt02(rows[ch].scenes[idx + 1]) >>)
    /\ \E t \in GuiSlots :
          /\ ~Running(t)
          /\ \A u \in GuiSlots : ~Running(u) => t <= u
          /\ threads' = [threads EXCEPT ![t] =
                [st |-> "run", op |-> "_play_scene_level_sequence",
                 args |-> <<ch, SceneDigitOf(idx), rows[ch].scenes[idx + 1]>>,
                 ctl |-> PButton(ch, idx),
                 prog |-> Settle(GuiPlaySceneLevelSequence(ch, SceneDigitOf(idx),
                                     rows[ch].scenes[idx + 1], PButton(ch, idx))),
                 handler |-> <<>>]]
    /\ UNCHANGED <<current_state, state_lock, hardware_ready, simulation, has_gpio,
                   gpio_word, rows, debug_mode, step_ready, widget, recording, writes,
                   connected, dialog, header, file>>

\* the state after the construction of the Tkinter application
GuiInit ==
    /\ current_state = AllOff
    /\ state_lock = 0
    /\ hardware_ready = FALSE
    /\ simulation = FALSE
    /\ widget = FALSE
    /\ has_gpio = FALSE
    /\ gpio_word = AllOff
    /\ threads = [t \in GuiSlots |->
                    IF t = 1
                    THEN [st |-> "run", op |-> "_init_hardware_thread", args |-> <<>>,
                          ctl |-> NoCtl, prog |-> GuiInitHardwareThread,
                          handler |-> GuiInitHardwareExcept]
                    ELSE NoThread]
    /\ disabled = {}
    /\ rows = TableOf(<<1>>)
    /\ debug_mode = FALSE
    /\ step_ready = FALSE
    /\ log = <<>>
    /\ queue = <<>>
    /\ recording = FALSE
    /\ writes = <<>>
    /\ connected = FALSE
    /\ dialog = <<>>
    /\ header = HeaderOf("", "", 1)
    /\ file = ""

\* one Play at a time, after the initialisation
GuiNext ==
    \/ \E t \in GuiSlots : Enter(t)
    \/ \E t \in GuiSlots : Write(t)
    \/ \E t \in GuiSlots : ConfigureStep(t)
    \/ \E t \in GuiSlots : CtorStep(t)
    \/ \E t \in GuiSlots : ReadyStep(t)
    \/ \E t \in GuiSlots : EnableStep(t)
    \/ \E t \in GuiSlots : GuiStartStep(t)
    \/ /\ \A t \in GuiSlots : ~Running(t)
       /\ hardware_ready
       /\ GuiPlayLevelWithLock(1, 0)

SpecGui == GuiInit /\ [][GuiNext]_vars

\* C29: within one Play of Gui.py the steps run one after the other, in the
\* order exit-programming-mode, programming-mode, scene-mode, channel digits,
\* level digits, exit: no thread writes while a thread started for another
\* step of the sequence still runs, and the thread of the sequence makes its
\* own writes (the digit presses) only when no started thread runs.
C29_StepsInOrder ==
    [][\A t \in GuiSlots :
          Write(t) => \A u \in GuiSlots \ {t} :
                         Running(u) => /\ threads[u].op = "_play_scene_level_sequence"
                                       /\ threads[t].op # "_play_scene_level_sequence"]_vars

(***************************************************************************)
(* program_zone, read off the words written by the composites of the sheet *)
(* that call it after their exit from programming mode.                    *)
(***************************************************************************)
\* the relays that are ON in the word w
OnRelays(w) == {r \in Digits : (w \div 2^r) % 2 = 0}

\* the writes of program_zone in a run of a composite of the sheet: the
\* writes after those of the exit from programming mode, as many as ten
\* presses and two guards take
ZoneProgramWrites ==
    SubSeq(writes, Len(ExitWords) + 1,
           IF Len(writes) < Len(ExitWords) + 24 THEN Len(writes) ELSE Len(ExitWords) + 24)

\* the relays switched ON by ws[i] (all relays are OFF before ws[1])
SwitchedOn(ws, i) == OnRelays(ws[i]) \ (IF i = 1 THEN {} ELSE OnRelays(ws[i - 1]))

\* the places of ws at which one relay alone is switched ON: the presses
PressPlaces(ws) ==
    SelectSeq([i \in 1..Len(ws) |-> i], LAMBDA i : Cardinality(SwitchedOn(ws, i)) = 1)

\* the relays pressed, in order
PressOrder(ws) ==
    [k \in 1..Len(PressPlaces(ws)) |-> CHOOSE r \in SwitchedOn(ws, PressPlaces(ws)[k]) : TRUE]

\* the word w with the relays 1 and 2 exchanged
Exchange12(w) ==
    WordWith({IF r = 1 THEN 2 ELSE IF r = 2 THEN 1 ELSE r : r \in OnRelays(w)})

\* C30: program_zone(zone), run alone, presses 8, 7, 1, 1 under the guard,
\* then the zone digit, then 8, 7, 2, 2 under the guard, then the zone digit
\* again; the right half is the left half with relay 2 for relay 1; the word is
\* 0xFFFF when it returns.
C30_ZoneProgramOrder ==
    \A t \in Slots :
        (Alive(t) /\ threads[t].op \in {"allocate_to_zones_sequence",
                                        "program_scene_levels_sequence"}) =>
            LET zone == threads[t].args[Len(threads[t].args)]
                ws == ZoneProgramWrites
                places == PressPlaces(ws)
                expected == <<8, 7, 1, 1, zone, 8, 7, 2, 2, zone>>
            IN /\ IsPrefix(PressOrder(ws), expected)
               /\ \A k \in 1..Len(places) :
                     IF k \in {5, 10}
                     THEN OnRelays(ws[places[k]]) = {zone}
                     ELSE OnRelays(ws[places[k]]) = {0, 9, expected[k]}
               /\ Len(ws) = 24 =>
                     /\ PressOrder(ws) = expected
                     /\ \A i \in 1..10 : ws[12 + i] = Exchange12(ws[i])
                     /\ ws[23] = ws[11]
                     /\ ws[12] = AllOff /\ ws[24] = AllOff

\* a zone programming of zone 0, whose digit is a relay of the guard, has
\* returned
C30_Witness ==
    \E t \in Slots :
        /\ Done(t) /\ threads[t].op = "allocate_to_zones_sequence"
        /\ threads[t].args = <<0>>
        /\ Len(ZoneProgramWrites) = 24
        /\ PressOrder(ZoneProgramWrites) = <<8, 7, 1, 1, 0, 8, 7, 2, 2, 0>>

(***************************************************************************)
(* The digits of a channel number and of a level: tables generated with a  *)
(* typed count, levels set in the spin boxes, Play run alone.              *)
(***************************************************************************)
DigitInit == Constructed(InitialTable, TRUE, FALSE, TRUE)

\* the counts typed into num_channels_entry
DigitCounts == {"9", "99", "100"}

\* the channels played: the first, the last and the ones around two digits
DigitChannels == {1, 9, 10, Len(rows)} \cap (1..Len(rows))

DigitCommand ==
    \/ \E text \in DigitCounts : header.num_channels # text /\ TypeNumChannels(text)
    \/ ParseInt(header.num_channels).value # Len(rows) /\ OnGenerateTable
    \/ \E level \in {0, 7, 99} : EditLevel(Len(rows), 0, level)
    \/ \E ch \in DigitChannels : PlayLevelWithLock(ch, 0)

DigitNext ==
    \/ \E t \in Slots : Enter(t)
    \/ \E t \in Slots : Write(t)
    \/ \E t \in Slots : ConfigureStep(t)
    \/ \E t \in Slots : CtorStep(t)
    \/ \E t \in Slots : ReadyStep(t)
    \/ \E t \in Slots : EnableStep(t)
    \/ Quiet /\ DigitCommand
    \/ ClearLog

SpecDigits == DigitInit /\ [][DigitNext]_vars

\* the writes of a finished Play between its scene digit and its last exit
\* from programming mode: the two double presses and the digit pulses
EntryWrites ==
    SubSeq(writes,
           Len(ExitWords) + Len(GuardedMultiWords(<<2, 1, 2, 1>>)) + 2 * Len(PulseWords(0)) + 1,
           Len(writes) - Len(ExitWords))

\* C31: digit entry of width 2 pulses one relay per decimal digit, most
\* significant first, and exactly two of them: for every channel number of the
\* table and every level 0..99 a Play pulses the tens digit (relay 0 below 10)
\* and the units digit of the channel, then those of the level.
C31_TwoDigitPulses ==
    \A t \in Slots :
        (Done(t) /\ threads[t].op = "_play_scene_level_sequence") =>
            LET channel == threads[t].args[1]
                level == threads[t].args[3]
            IN PressOrder(EntryWrites)
                   = <<channel \div 10, channel % 10, level \div 10, level % 10>>

(***************************************************************************)
(* The debug gate with the mode switched at any time: one allocation       *)
(* started in debug mode, Debug Mode and Next Step pressed at any time,    *)
(* every thread scheduled fairly.                                          *)
(***************************************************************************)
ReleaseInit == Constructed(TableOf(<<1>>), TRUE, FALSE, FALSE)

ReleaseCommand ==
    \/ Idle /\ debug_mode /\ OnAllocateToZones(1, TRUE)
    \/ ToggleDebugMode
    \/ OnNextStep

ReleaseNext ==
    \/ \E t \in Slots : Enter(t)
    \/ \E t \in Slots : Write(t)
    \/ \E t \in Slots : ConfigureStep(t)
    \/ \E t \in Slots : CtorStep(t)
    \/ \E t \in Slots : ReadyStep(t)
    \/ \E t \in Slots : EnableStep(t)
    \/ \E t \in Slots : ProgramZoneStep(t)
    \/ \E t \in Slots : AllocIterStep(t)
    \/ \E t \in Slots : WaitStepStep(t)
    \/ \E t \in Slots : EventClearStep(t)
    \/ \E t \in Slots : EventWaitStep(t)
    \/ Initialised /\ ReleaseCommand

\* every statement a thread can execute is eventually executed; the presses
\* of the buttons are not owed
ReleaseFairness ==
    \A t \in Slots :
        /\ WF_vars(Enter(t)) /\ WF_vars(Write(t))
        /\ WF_vars(ConfigureStep(t)) /\ WF_vars(CtorStep(t)) /\ WF_vars(ReadyStep(t))
        /\ WF_vars(EnableStep(t)) /\ WF_vars(ProgramZoneStep(t))
        /\ WF_vars(AllocIterStep(t)) /\ WF_vars(WaitStepStep(t))
        /\ WF_vars(EventClearStep(t)) /\ WF_vars(EventWaitStep(t))

SpecRelease == ReleaseInit /\ [][ReleaseNext]_vars /\ ReleaseFairness

\* thread t is inside wait_for_next_step, past its test of debug_mode
AtCheckpoint(t) == Running(t) /\ Cur(t).k \in {"event_clear", "event_wait"}

\* C32: a sequence that is at a debug checkpoint when debug mode is off (it
\* was suspended there, or was entering it, when the mode was switched off)
\* leaves the checkpoint with no further press, whatever the interleaving of
\* toggle_debug_mode with wait_for_next_step.
C32_DebugOffReleases ==
    \A t \in Slots :
        (AtCheckpoint(t) /\ ~debug_mode) ~> (~AtCheckpoint(t) \/ debug_mode)

(***************************************************************************)
(* The mirror: toggles of a guard relay and of a digit relay, a double     *)
(* press, the composites and the shutdown beside each other, on either     *)
(* backend, every write succeeding.                                        *)
(***************************************************************************)
MirrorInit == \E sim \in BOOLEAN : Constructed(TableOf(<<1>>), sim, FALSE, FALSE)

MirrorCommand ==
    \/ \E r \in ToggleRelays : ToggleRelay(r)
    \/ QuickMode(<<"Quick Scene", 1, 5>>)
    \/ Idle /\ FacadeCommand
    \/ CloseHardware

MirrorNext ==
    \/ \E t \in Slots : Enter(t)
    \/ \E t \in Slots : Write(t)
    \/ \E t \in Slots : ConfigureStep(t)
    \/ \E t \in Slots : CtorStep(t)
    \/ \E t \in Slots : ReadyStep(t)
    \/ \E t \in Slots : EnableStep(t)
    \/ \E t \in Slots : ProgramZoneStep(t)
    \/ \E t \in Slots : ReadRowsStep(t)
    \/ \E t \in Slots : AllocIterStep(t)
    \/ \E t \in Slots : WaitStepStep(t)
    \/ \E t \in Slots : CloseTestStep(t)
    \/ \E t \in Slots : CloseStep(t)
    \/ Initialised /\ MirrorCommand

SpecMirror == MirrorInit /\ [][MirrorNext]_vars

\* C33: after _init_hardware_thread has made the hardware ready, in every
\* state in which state_lock is not held the word last written to the GPIO
\* backend is current_state.
C33_WordMirrored ==
    (Initialised /\ hardware_ready /\ state_lock = 0) => gpio_word = current_state

\* a toggle of relay 3 has written its ON word inside the guarded part of an
\* executing composite, and nobody holds the lock
C33_Witness ==
    /\ Initialised /\ hardware_ready /\ state_lock = 0
    /\ gpio_word = WordWith({0, 3, 9})
    /\ current_state = WordWith({0, 3, 9})
    /\ \E t \in Slots : Running(t) /\ threads[t].op = "_toggle_relay_thread"
    /\ Executing # {}

(***************************************************************************)
(* Quiescence: toggles, mode sequences, single and double presses started  *)
(* while others run, a composite started when no thread runs and joined by *)
(* the others; the simulated backend, every write succeeding.              *)
(***************************************************************************)
QuiesceInit == Constructed(TableOf(<<1>>), TRUE, FALSE, FALSE)

QuiesceCommand ==
    \/ \E r \in ToggleRelays : ToggleRelay(r)
    \/ ProgrammingMode
    \/ ZoneMode(<<"Zone Left", <<8, 7, 1, 1>> >>)
    \/ SingleMode(<<"Exit Prog Mode", 8>>)
    \/ QuickMode(<<"Quick Scene", 1, 5>>)
    \/ Idle /\ FacadeCommand

QuiesceNext ==
    \/ \E t \in Slots : Enter(t)
    \/ \E t \in Slots : Write(t)
    \/ \E t \in Slots : ConfigureStep(t)
    \/ \E t \in Slots : CtorStep(t)
    \/ \E t \in Slots : ReadyStep(t)
    \/ \E t \in Slots : EnableStep(t)
    \/ \E t \in Slots : ProgramZoneStep(t)
    \/ \E t \in Slots : ReadRowsStep(t)
    \/ \E t \in Slots : AllocIterStep(t)
    \/ \E t \in Slots : WaitStepStep(t)
    \/ Initialised /\ QuiesceCommand

SpecQuiesce == QuiesceInit /\ [][QuiesceNext]_vars

\* C34: once every started thread has finished, the relay word (in memory and
\* on the backend) is 0xFFFF; and in every state bits 10..15 of the word are 1.
C34_Quiescence ==
    /\ (hardware_ready /\ \A t \in Slots : ~Running(t) /\ threads[t].st # "failed")
           => current_state = AllOff /\ gpio_word = AllOff
    /\ \A i \in 10..15 : BitAt(current_state, i) = 1 /\ BitAt(gpio_word, i) = 1

\* a toggle of relay 3 and a composite have both run to their end
C34_Witness ==
    /\ \E t \in Slots, u \in Slots :
           /\ Done(t) /\ threads[t].op = "_toggle_relay_thread" /\ threads[t].args = <<3>>
           /\ Done(u) /\ threads[u].op \in Composites
    /\ current_state = AllOff
    /\ gpio_word = AllOff

\* thread t has written the ON word of its relays and has not yet written its
\* OFF word
Holding(t) == Running(t) /\ Owned(t) # {} /\ Cur(t).k = "set"

\* C35: from the ON write of a toggle or double press to that operation's own
\* OFF write, the bits of its relays are 0 in the word on the GPIO backend,
\* also when another operation uses the same relay concurrently.
C35_HeldUntilOwnRelease ==
    \A t \in Slots : Holding(t) => \A i \in Owned(t) : BitAt(gpio_word, i) = 0

(***************************************************************************)
(* Commands given while _init_hardware_thread still runs: a toggle, a mode,*)
(* a shortcut and the three commands of the sheet, on either backend.      *)
(***************************************************************************)
EarlyInit == \E sim \in BOOLEAN : Constructed(TableOf(<<1>>), sim, FALSE, FALSE)

EarlyCommand ==
    \/ ToggleRelay(3)
    \/ ProgrammingMode
    \/ QuickMode(<<"Quick Scene", 1, 5>>)
    \/ PlayLevelWithLock(1, 0)
    \/ OnProgramSceneLevels(1, 1, TRUE)
    \/ OnAllocateToZones(1, TRUE)

EarlyNext ==
    \/ \E t \in Slots : Enter(t)
    \/ \E t \in Slots : Write(t)
    \/ \E t \in Slots : Raises(t)
    \/ \E t \in Slots : ConfigureStep(t)
    \/ \E t \in Slots : CtorStep(t)
    \/ \E t \in Slots : ReadyStep(t)
    \/ \E t \in Slots : EnableStep(t)
    \/ \E t \in Slots : ProgramZoneStep(t)
    \/ \E t \in Slots : ReadRowsStep(t)
    \/ \E t \in Slots : AllocIterStep(t)
    \/ \E t \in Slots : WaitStepStep(t)
    \/ ~hardware_ready /\ EarlyCommand

SpecEarly == EarlyInit /\ [][EarlyNext]_vars

\* C36: while hardware_ready is false the only thread that writes a word to
\* the GPIO backend is _init_hardware_thread: no command of the facade leads
\* to a write before the initialisation has completed.
C36_NoWriteBeforeReady ==
    [][\A t \in Slots :
           (Write(t) /\ ~hardware_ready) => threads[t].op = "_init_hardware_thread"]_vars

\* both guard relays are energized in word w
GuardHeld(w) == BitAt(w, 0) = 0 /\ BitAt(w, 9) = 0

\* thread t is at the ON or the OFF block of a pulse, between a guardOn and a
\* guardOff block
AtPulse(t) == Running(t) /\ Cur(t).k \in {"clr", "set"} /\ Cur(t).a # GuardMask

\* C37: in Gui.py the ON and the OFF write of a guarded single pulse, made
\* while both guard bits are 0 on the GPIO backend, leave both guard bits at
\* 0, whatever the digit pulsed: the guard is held until the guardOff write.
C37_GuiGuardHeld ==
    [][\A t \in GuiSlots :
           (Write(t) /\ AtPulse(t) /\ GuardHeld(gpio_word)) => GuardHeld(gpio_word')]_vars

\* C38: a checkpoint is not skipped.  A sequence that calls wait_for_next_step
\* in debug mode goes to the clearing of the event; after the clearing it is
\* suspended, whatever signal was given before; and while debug mode stays on
\* a suspended sequence is released only by on_next_step.
C38_CheckpointNotSkipped ==
    [][\A t \in Slots :
          /\ (WaitStepStep(t) /\ debug_mode) => At(t, {"event_clear"})'
          /\ EventClearStep(t) => Suspended(t)'
          /\ (Suspended(t) /\ debug_mode /\ debug_mode' /\ ~Suspended(t)') => OnNextStep]_vars

\* the Program-Scene sequence has passed its first checkpoints (the event was
\* set for them and wait leaves it set) and is suspended at a later one
C38_Witness ==
    \E t \in Slots :
        /\ Suspended(t)
        /\ debug_mode
        /\ threads[t].op = "program_scene_levels_sequence"
        /\ \A i \in 1..Len(threads[t].prog) :
               threads[t].prog[i].k \notin {"program_zone", "read_rows"}

\* C39: the channel table has at least one row, and its rows are the channels
\* 1..n in order (row i of the table is channel i of read_table_data).
C39_TableNotEmpty ==
    /\ Len(rows) >= 1
    /\ \A i \in 1..Len(rows) : ReadTableData(rows)[i].channel = i

\* on_import_csv of the selected file ends in its except block
ImportFails ==
    LET parsed == ParseCsv(file) IN
    \/ ~parsed.ok
    \/ ~ImportEntries(RebuildTable(rows, Len(parsed.rows)), parsed.rows).ok

\* C40: an import that reports an error leaves the site name, the date, the
\* channel count and every row of the table as they were.
C40_FailedImportNoChange ==
    [][(OnImportCsv /\ ImportFails) => (rows' = rows /\ header' = header)]_vars

====
